---- MODULE Spec2Model ----
(***************************************************************************)
(* EyeD iris-engine: the gallery, the bounded-queue writers, the change    *)
(* bus and the enrollment paths, as state machines.                        *)
(*                                                                         *)
(* The module holds one set of variables and several specifications, one   *)
(* per subsystem; each specification moves the variables of its subsystem  *)
(* and leaves the others at their initial values.                          *)
(*   SpecLog    MatchLogWriter                       (src/db.py)           *)
(*   SpecDrain  Redis enrollment queue and its drain (src/redis_cache.py,  *)
(*              src/db_drain.py)                                           *)
(*   SpecGallery  TemplateGallery: reload, enroll, remove, 1:N matching    *)
(*              (src/matcher.py, src/nats_service.py)                      *)
(*   SpecEnroll   single enrollment                  (src/core.py)         *)
(*   SpecPool   batch workers and the pipeline pool  (src/routes/enroll.py,*)
(*              src/pipeline_pool.py)                                      *)
(*   SpecPoolFair  SpecPool with the worker threads weakly fair            *)
(*   SpecStream the stream of a batch and its workers                      *)
(*              (src/routes/enroll.py)                                     *)
(*   SpecBatch  batch enrollment stream, drain and a second node           *)
(*              (src/routes/enroll.py, src/db_drain.py)                    *)
(*   SpecReload, SpecReloadFair  the templates.changed subscription and    *)
(*              the debounced reload (src/nats_service.py, src/db.py)      *)
(*   SpecMatch  queries in plaintext and HE mode     (src/matcher.py,      *)
(*              src/he_matcher.py)                                         *)
(*   SpecScan   one 1:N scan over a snapshot         (src/matcher.py,      *)
(*              src/he_matcher.py)                                         *)
(*   SpecKeyClient  batched decryption requests      (src/key_client.py)   *)
(*   SpecLock   the gallery lock and its holders     (src/matcher.py,      *)
(*              src/core.py, src/routes/)                                  *)
(*   SpecCodec  pack_codes / unpack_codes            (src/db.py,           *)
(*              src/crypto.py)                                             *)
(*   SpecBoot   startup and the template key         (src/main.py,         *)
(*              src/crypto.py)                                             *)
(*   SpecDelete  gallery_delete with enrollments and reloads               *)
(*              (src/routes/gallery.py, src/matcher.py)                    *)
(*   SpecStreamFair  SpecStream, workers and stream weakly fair            *)
(***************************************************************************)
EXTENDS Integers, Sequences, FiniteSets, TLC

(***************************************************************************)
(* Bounds of the model.  The three sizes the program fixes at 1000, 50 and *)
(* 50 are checked at reduced sizes; every formula is stated with the name. *)
(***************************************************************************)
QueueMaxsize == 3
    \* asyncio.Queue(maxsize=1000) of MatchLogWriter
BatchMax == 2
    \* "len(entries) < 50" in MatchLogWriter._drain_loop
MaxLogCalls == 4
    \* number of MatchLogWriter.log calls explored
BatchDbSize == 2
    \* settings.batch_db_size (default 50)
MaxPush == 3
    \* number of records pushed to the Redis list explored
NumIdentities == 2
    \* identity ids 1..NumIdentities
NumTemplates == 2
    \* distinct iris templates (what the pipeline extracts from an image)
MaxTid == 2
    \* template ids handed out (uuid4 of gallery.enroll, here 1, 2, ...)
NumRequests == 2
    \* single enrollment requests (POST /enroll, eyed.enroll)
NumItems == 2
    \* work items of a batch enrollment
PoolSize == 1
    \* settings.pipeline_pool_size: instances of the pipeline pool
BatchWorkers == 2
    \* settings.batch_workers: threads of _batch_pool

VARIABLES
    \* ---- MatchLogWriter (db.py) ----
    ml_queue,      \* self._queue: the entries waiting, oldest first
    ml_task,       \* self._task: "none" | "get" | "insert" | "cancelled"
    ml_entries,    \* the local list `entries` of _drain_loop / _flush_remaining
    ml_stop,       \* stop(): "idle" | "flush" | "flush_insert" | "returned"
    ml_calls,      \* number of log() calls made so far (entry k is the k-th call's)
    ml_accepted,   \* entries put_nowait accepted
    ml_dropped,    \* entries put_nowait refused (QueueFull)
    ml_issued,     \* the batches whose executemany ran to its end, in order
    match_log,     \* rows of table match_log, in insertion order
    \* ---- Redis enrollment queue and drain (redis_cache.py, db_drain.py) ----
    rq,            \* the Redis list eyed:enroll:pending, head first
    rq_pushed,     \* every payload RPUSHed so far, in order
    rq_popped,     \* every payload an LRANGE of pop_enrollments returned, in order
    rq_returned,   \* every record pop_enrollments returned to its caller, in order
    drain_pc,      \* the drain task: "sleep" | "identities" | "templates"
    drain_items,   \* `items` of _flush / _batch_insert
    db_identities, \* table identities: the set of identity ids with a row
    db_templates,  \* table templates: the set of rows [tid, iid, blob]
    \* ---- TemplateGallery of each node (matcher.py) ----
    entries,       \* entries[n]: gallery._entries of node n
    gal_whole,     \* gal_whole[n]: the list node n's gallery holds since its
                   \* last completed enroll, remove_identity or reload swap
    next_tid,      \* the next unused template id
    \* ---- change bus and debounced reload (nats_service.py) ----
    published,     \* every templates.changed message published, in order
    nats_inbox,    \* nats_inbox[n]: messages delivered to node n, not yet handled
    load_pc,       \* load_pc[n]: "idle" | "sleep" | "fetch" | "build"
    load_rows,     \* load_rows[n]: the rows fetched, not yet turned into entries
    new_entries,   \* new_entries[n]: the local list load_from_db builds
    load_gen,      \* load_gen[n]: debounce tasks node n has created so far
    load_timers,   \* load_timers[n]: the debounce tasks of node n that sleep
                   \*                 (each named by its number)
    load_fetched,  \* load_fetched[n]: the rows load_all_templates returned
                   \*                  to the reload in progress
    pool_open,     \* pool_open[n]: db._pool of node n is set (not None)
    \* ---- 1:N queries running in worker threads ----
    m_pc,          \* m_pc[m]: "idle" | "scan"
    m_call,        \* m_call[m]: [node, probe, threshold] of the query
    m_snap,        \* m_snap[m]: the local list `entries` the query iterates
    m_at,          \* m_at[m]: "build" when the snapshot was taken while
                   \*          load_from_db was building its list, else "idle"
    m_seen,        \* m_seen[m]: gal_whole of the node when the snapshot was taken
    m_result,      \* m_result[m]: the MatchResult returned
    m_touched,     \* m_touched[m]: the services the query called, out of
                   \*               "store" and "key_service"
    he_mode,       \* "off": settings.he_enabled is false; "local": HE with
                   \* has_secret_key(); "remote": HE with the key-service
    \* ---- single enrollments on node 1 (core.py) ----
    nats_connected,\* nats_service.nc is set and connected
    e_pc,          \* e_pc[r]: "new" | "dedup" | "enroll" | "lookup" | "identity"
                   \*          | "persist" | "publish" | "returned"
    e_req,         \* e_req[r]: [iid, tpl]: the identity of the request and
                   \*           the template the pipeline extracted
    e_response,    \* e_response[r]: the EnrollResponse
    e_trace,       \* e_trace[r]: the effects of request r on its template,
                   \* in order: "gallery" | "store" | "event"
    \* ---- pipeline pool and batch workers (pipeline_pool.py, routes/enroll.py) ----
    pp_pool,       \* PipelinePool._pool: the instances available, oldest first
    w_pc,          \* w_pc[i]: the future of work item i: "none" | "queued"
                   \*          | "acquire" | "analyze" | "dedup" | "enroll"
                   \*          | "done" | "cancelled"
    w_pipe,        \* w_pipe[i]: `pipe` of _process_one (None or an instance)
    w_tpl,         \* w_tpl[i]: the template the pipeline extracted
    w_result,      \* w_result[i]: the BulkEnrollResult
    b_completed,   \* the work items whose future completed, in completion order
    \* ---- the stream of one batch enrollment (routes/enroll.py) ----
    s_pc,          \* _stream: "new" | "loop" | "done" | "closed" | "failed"
    s_out,         \* the events the stream has yielded, in order
    s_taken,       \* results the loop over as_completed has handled
    enrolled_count,
    dup_count,
    error_count,
    \* ---- one call of a function, its inputs and what it returned ----
    scan,          \* a 1:N query over a given snapshot: [pc, mode, probe,
                   \* snap, threshold, raised, result]
    kc,            \* a call of key_client.request_decrypt_batch: [pc, probe,
                   \* entries, connected, chunked, chunks, sent, best]
    lk,            \* gallery._lock and the threads and tasks that take it:
                   \* [holder, pc]
    codec,         \* a call of pack_codes and unpack_codes, or of
                   \* unpack_codes on a stored blob: [pc, key, codes, blob, out]
    boot,          \* the lifespan of a node: [pc, env, rows, loaded, served,
                   \* raised]
    gd             \* the handler of DELETE /gallery/delete/{identity_id} on
                   \* node 1: [pc, iid, removed, since, calls]

mlVars == <<ml_queue, ml_task, ml_entries, ml_stop, ml_calls, ml_accepted,
            ml_dropped, ml_issued, match_log>>
rqVars == <<rq, rq_pushed, rq_popped, rq_returned, drain_pc, drain_items>>
dbVars == <<db_identities, db_templates>>
galVars == <<entries, gal_whole, next_tid>>
busVars == <<published, nats_inbox>>
loadVars == <<load_pc, load_rows, new_entries, load_gen, load_timers,
              load_fetched, pool_open>>
mVars == <<m_pc, m_call, m_snap, m_at, m_seen, m_result, m_touched, he_mode>>
enrVars == <<nats_connected, e_pc, e_req, e_response, e_trace>>
poolVars == <<pp_pool, w_pc, w_pipe, w_tpl, w_result, b_completed>>
streamVars == <<s_pc, s_out, s_taken, enrolled_count, dup_count, error_count>>
callVars == <<scan, kc, lk, codec, boot, gd>>
vars == <<mlVars, rqVars, dbVars, galVars, busVars, loadVars, mVars, enrVars,
          poolVars, streamVars, callVars>>

Nodes == {1, 2}
    \* node 1 enrolls and serves; node 2 is another matcher node of the fleet
OtherNode == 0
    \* the node_id of a node of the fleet that is not modelled
Matchers == {1}
    \* 1:N queries only read: one query thread is followed among the steps
    \* of the writers
Requests == 1..NumRequests
Templates == 1..NumTemplates
Identities == 1..NumIdentities
Items == 1..NumItems
Instances == 1..PoolSize
None == 0
    \* Python None for an id

(***************************************************************************)
(* Helpers on sequences.                                                   *)
(***************************************************************************)
Min(a, b) == IF a < b THEN a ELSE b

Range(s) == {s[i] : i \in 1..Len(s)}

\* number of batches of ss that hold e
Occurrences(ss, e) == Cardinality({i \in 1..Len(ss) : e \in Range(ss[i])})

(***************************************************************************)
(* Initial values, per subsystem.                                          *)
(***************************************************************************)
InitLog ==
    /\ ml_queue = <<>>
    /\ ml_task = "none"
    /\ ml_entries = <<>>
    /\ ml_stop = "idle"
    /\ ml_calls = 0
    /\ ml_accepted = {}
    /\ ml_dropped = {}
    /\ ml_issued = <<>>
    /\ match_log = <<>>

InitRedis ==
    /\ rq = <<>>
    /\ rq_pushed = <<>>
    /\ rq_popped = <<>>
    /\ rq_returned = <<>>
    /\ drain_pc = "sleep"
    /\ drain_items = <<>>

InitDb ==
    /\ db_identities = {}
    /\ db_templates = {}

NoResult == [hamming_distance |-> 100, is_match |-> FALSE, matched_identity_id |-> None]

InitGallery ==
    /\ entries = [n \in Nodes |-> <<>>]
    /\ gal_whole = [n \in Nodes |-> <<>>]
    /\ next_tid = 1

InitBus ==
    /\ published = <<>>
    /\ nats_inbox = [n \in Nodes |-> <<>>]

InitLoad ==
    /\ load_pc = [n \in Nodes |-> "idle"]
    /\ load_rows = [n \in Nodes |-> <<>>]
    /\ new_entries = [n \in Nodes |-> <<>>]
    /\ load_gen = [n \in Nodes |-> 0]
    /\ load_timers = [n \in Nodes |-> {}]
    /\ load_fetched = [n \in Nodes |-> <<>>]
    /\ pool_open = [n \in Nodes |-> TRUE]

\* no query in progress
NoCall == [node |-> 1, probe |-> 1, threshold |-> 0]

InitMatchers ==
    /\ m_pc = [m \in Matchers |-> "idle"]
    /\ m_call = [m \in Matchers |-> NoCall]
    /\ m_snap = [m \in Matchers |-> <<>>]
    /\ m_at = [m \in Matchers |-> "idle"]
    /\ m_seen = [m \in Matchers |-> <<>>]
    /\ m_result = [m \in Matchers |-> NoResult]
    /\ m_touched = [m \in Matchers |-> {}]

NoResponse == [template_id |-> None, is_duplicate |-> FALSE,
               duplicate_identity_id |-> None, error |-> FALSE]

InitEnroll ==
    /\ nats_connected = TRUE
    /\ e_pc = [r \in Requests |-> "new"]
    /\ e_req = [r \in Requests |-> [iid |-> 1, tpl |-> 1]]
    /\ e_response = [r \in Requests |-> NoResponse]
    /\ e_trace = [r \in Requests |-> <<>>]

\* BulkEnrollResult as _process_one creates it; error is "" for None
NoBulkResult == [template_id |-> None, is_duplicate |-> FALSE,
                 duplicate_identity_id |-> None, error |-> ""]

\* init_pipeline_pool(size): load() puts every instance; no batch yet
InitPool ==
    /\ pp_pool = [k \in 1..PoolSize |-> k]
    /\ w_pc = [i \in Items |-> "none"]
    /\ w_pipe = [i \in Items |-> None]
    /\ w_tpl = [i \in Items |-> None]
    /\ w_result = [i \in Items |-> NoBulkResult]
    /\ b_completed = <<>>

InitStream ==
    /\ s_pc = "new"
    /\ s_out = <<>>
    /\ s_taken = 0
    /\ enrolled_count = 0
    /\ dup_count = 0
    /\ error_count = 0

\* no query in progress
NoScan == [pc |-> "idle", mode |-> "off", probe |-> 1, snap |-> <<>>,
           threshold |-> 0, raised |-> FALSE, result |-> NoResult]

\* no decrypt batch in progress
NoBatch == [pc |-> "idle", probe |-> 1, entries |-> <<>>, connected |-> TRUE,
            chunked |-> FALSE, chunks |-> <<>>, sent |-> <<>>,
            best |-> NoResult]

\* bytes b"": no blob; and no value returned yet
NoBlob == [prefix |-> "", key |-> 0, payload |-> <<>>]
NoOutput == [error |-> "", arrays |-> <<>>]

\* the threads and coroutines that take gallery._lock
Threads == {"match", "enroll", "reload", "delete", "log_match", "batch",
            "list"}

InitCalls ==
    /\ scan = NoScan
    /\ kc = NoBatch
    /\ lk = [holder |-> "", pc |-> [t \in Threads |-> 1]]
    /\ codec = [pc |-> "idle", key |-> 0, codes |-> <<>>, blob |-> NoBlob,
                out |-> NoOutput]
    /\ boot = [pc |-> "off", env |-> "unset", rows |-> <<>>, loaded |-> 0,
               served |-> 0, raised |-> 0]
    /\ gd = [pc |-> "idle", iid |-> None, removed |-> 0, since |-> 0,
             calls |-> 0]

InitServices ==
    InitLog /\ InitRedis /\ InitDb /\ InitGallery /\ InitBus /\ InitLoad
    /\ InitMatchers /\ InitEnroll /\ InitPool /\ InitStream /\ InitCalls

\* the default configuration: he_enabled = False
Init == InitServices /\ he_mode = "off"

HeModes == {"off", "local", "remote"}

\* a node started in any of the three matching modes
InitAnyMode == InitServices /\ he_mode \in HeModes

(***************************************************************************)
(* MatchLogWriter                                                          *)
(***************************************************************************)
NotLog == <<rqVars, dbVars, galVars, busVars, loadVars, mVars, enrVars,
           poolVars, streamVars, callVars>>

\* asyncio.Queue.put_nowait on a queue of QueueMaxsize: the queue afterwards
\* (QueueFull leaves it as it is).
PutNowaitAlways(q, e) == Append(q, e)
PutNowait(q, e) == IF Len(q) < QueueMaxsize THEN Append(q, e) ELSE q

\* start(): the drain task is created and waits in queue.get().
MLStart ==
    /\ ml_task = "none"
    /\ ml_task' = "get"
    /\ UNCHANGED <<ml_queue, ml_entries, ml_stop, ml_calls, ml_accepted,
                   ml_dropped, ml_issued, match_log>>
    /\ UNCHANGED NotLog

\* log(entry): put_nowait, QueueFull swallowed.  Called by request handlers,
\* which run between start() and stop() (main.py lifespan).
MLLog ==
    /\ ml_task # "none"
    /\ ml_stop = "idle"
    /\ ml_calls < MaxLogCalls
    /\ LET e == ml_calls + 1 IN
        /\ ml_calls' = e
        /\ ml_queue' = PutNowait(ml_queue, e)
        /\ IF Len(ml_queue) < QueueMaxsize
              THEN ml_accepted' = ml_accepted \cup {e} /\ UNCHANGED ml_dropped
              ELSE ml_dropped' = ml_dropped \cup {e} /\ UNCHANGED ml_accepted
    /\ UNCHANGED <<ml_task, ml_entries, ml_stop, ml_issued, match_log>>
    /\ UNCHANGED NotLog

\* The batch _drain_loop takes once queue.get() has returned: the head, then
\* what is ready while len(entries) < BatchMax.
DrainAll(q) == q
DrainBatch(q) == SubSeq(q, 1, Min(Len(q), BatchMax))

\* _drain_loop, from `await self._queue.get()` to the call of _batch_insert
\* (no suspension point in between).
MLDrainGet ==
    /\ ml_task = "get"
    /\ ml_queue # <<>>
    /\ ml_entries' = DrainBatch(ml_queue)
    /\ ml_queue' = SubSeq(ml_queue, Len(DrainBatch(ml_queue)) + 1, Len(ml_queue))
    /\ ml_task' = "insert"
    /\ UNCHANGED <<ml_stop, ml_calls, ml_accepted, ml_dropped, ml_issued, match_log>>
    /\ UNCHANGED NotLog

\* _batch_insert of the drain loop ends: executemany succeeded, or raised and
\* the exception was logged; the loop goes back to queue.get().
MLInsertDone(ok) ==
    /\ ml_task = "insert"
    /\ ml_issued' = Append(ml_issued, ml_entries)
    /\ match_log' = IF ok THEN match_log \o ml_entries ELSE match_log
    /\ ml_entries' = <<>>
    /\ ml_task' = "get"
    /\ UNCHANGED <<ml_queue, ml_stop, ml_calls, ml_accepted, ml_dropped>>
    /\ UNCHANGED NotLog

\* stop(): self._task.cancel(); await self._task.  CancelledError is raised at
\* the await the task is suspended in.  In queue.get() nothing is held.  In
\* pool.executemany the error is not an Exception, so _batch_insert does not
\* catch it: the local list is dropped, and the statement has either
\* completed on the server (landed) or was abandoned.
MLStopCancel(landed) ==
    /\ ml_stop = "idle"
    /\ ml_task \in {"get", "insert"}
    /\ IF ml_task = "insert" /\ landed
          THEN /\ ml_issued' = Append(ml_issued, ml_entries)
               /\ match_log' = match_log \o ml_entries
          ELSE UNCHANGED <<ml_issued, match_log>>
    /\ ml_entries' = <<>>
    /\ ml_task' = "cancelled"
    /\ ml_stop' = "flush"
    /\ UNCHANGED <<ml_queue, ml_calls, ml_accepted, ml_dropped>>
    /\ UNCHANGED NotLog

\* _flush_remaining: empty the queue into a local list; insert it if not empty.
MLFlushRemaining ==
    /\ ml_stop = "flush"
    /\ ml_entries' = ml_queue
    /\ ml_queue' = <<>>
    /\ ml_stop' = IF ml_queue = <<>> THEN "returned" ELSE "flush_insert"
    /\ UNCHANGED <<ml_task, ml_calls, ml_accepted, ml_dropped, ml_issued, match_log>>
    /\ UNCHANGED NotLog

\* the _batch_insert of _flush_remaining ends; stop() returns.
MLFlushInsertDone(ok) ==
    /\ ml_stop = "flush_insert"
    /\ ml_issued' = Append(ml_issued, ml_entries)
    /\ match_log' = IF ok THEN match_log \o ml_entries ELSE match_log
    /\ ml_entries' = <<>>
    /\ ml_stop' = "returned"
    /\ UNCHANGED <<ml_queue, ml_task, ml_calls, ml_accepted, ml_dropped>>
    /\ UNCHANGED NotLog

NextLog ==
    \/ MLStart
    \/ MLLog
    \/ MLDrainGet
    \/ \E ok \in BOOLEAN : MLInsertDone(ok)
    \/ \E landed \in BOOLEAN : MLStopCancel(landed)
    \/ MLFlushRemaining
    \/ \E ok \in BOOLEAN : MLFlushInsertDone(ok)

SpecLog == Init /\ [][NextLog]_vars

(***************************************************************************)
(* Claims on MatchLogWriter, checked under SpecLog.                        *)
(***************************************************************************)

\* C6: once stop() has returned, every entry log() accepted is in exactly one
\* batch insert issued to the store, the entries the drain loop had already
\* dequeued when it was cancelled included.
C6_AcceptedEntriesFlushed ==
    ml_stop = "returned" =>
        \A e \in ml_accepted : Occurrences(ml_issued, e) = 1

\* C7: the queue never holds more than QueueMaxsize entries, and a log call
\* that finds it full is one step that discards its own entry and leaves the
\* queued entries and their order as they were.
C7_LogDropsOnOverflow ==
    /\ [](Len(ml_queue) <= QueueMaxsize)
    /\ [][(ml_calls' = ml_calls + 1 /\ Len(ml_queue) = QueueMaxsize)
            => (/\ ml_queue' = ml_queue
                /\ ml_calls' \in ml_dropped'
                /\ ml_calls' \notin ml_accepted')]_vars

C7_Witness ==
    /\ ml_dropped # {}
    /\ Len(ml_queue) = QueueMaxsize
    /\ ml_calls \in ml_dropped

(***************************************************************************)
(* Redis enrollment queue (redis_cache.py) and its drain (db_drain.py)     *)
(***************************************************************************)
NotDrain == <<mlVars, galVars, busVars, loadVars, mVars, enrVars,
             poolVars, streamVars, callVars>>

\* pack_codes / unpack_codes (db.py): the blob of a list of code arrays
\* (an NPZ archive) and the arrays read back from a blob; a blob that is no
\* archive does not decode.
PackCodes(tpl) == <<"NPZ", tpl>>
Decodable(blob) == blob[1] = "NPZ"
UnpackCodes(blob) == blob[2]

\* A payload on the Redis list: template id, identity id and packed codes of
\* an enrollment, and whether the bytes parse as JSON.  push_enrollment
\* writes json.dumps output; an unparsable payload comes from another writer.
WellFormed(p) == p.wf

\* LRANGE key lo hi (0-based, inclusive) and LTRIM key lo -1.
LRange(list, lo, hi) == SubSeq(list, lo + 1, Min(hi + 1, Len(list)))

LTrimShort(list, lo) == SubSeq(list, lo, Len(list))
LTrim(list, lo) == SubSeq(list, lo + 1, Len(list))

\* The identity_name _stream passes with an identity id: identity_id is
\* uuid5(ns(dataset), subject_id) and the name is "{dataset}:{subject_id}",
\* both of the same dataset and subject.
DisplayName(iid) == <<"bulk", iid>>

\* push_enrollment(data): RPUSH of the serialized record.
PushEnrollment(tid, iid, blob) ==
    LET p == [tid |-> tid, iid |-> iid, name |-> DisplayName(iid),
              blob |-> blob, wf |-> TRUE] IN
        /\ rq' = Append(rq, p)
        /\ rq_pushed' = Append(rq_pushed, p)

\* A batch stream hands one enrolled template to _push_persistence, which
\* pushes it (the template id is a fresh uuid4: here the number of the push).
PushRecord(iid) ==
    /\ Len(rq_pushed) < MaxPush
    /\ PushEnrollment(Len(rq_pushed) + 1, iid, PackCodes(1))
    /\ UNCHANGED <<rq_popped, rq_returned, drain_pc, drain_items>>
    /\ UNCHANGED dbVars
    /\ UNCHANGED NotDrain

\* Another writer appends bytes that are not JSON (the case the
\* JSONDecodeError branch of pop_enrollments handles).
PushMalformed ==
    /\ Len(rq_pushed) < MaxPush
    /\ LET p == [tid |-> Len(rq_pushed) + 1, iid |-> 1, name |-> <<"", 0>>,
                  blob |-> <<"", 0>>, wf |-> FALSE] IN
        /\ rq' = Append(rq, p)
        /\ rq_pushed' = Append(rq_pushed, p)
    /\ UNCHANGED <<rq_popped, rq_returned, drain_pc, drain_items>>
    /\ UNCHANGED dbVars
    /\ UNCHANGED NotDrain

\* pop_enrollments(batch_size): what the pipeline's LRANGE returns, parsed,
\* the unparsable payloads skipped.
PopRaw(list, batch_size) == LRange(list, 0, batch_size - 1)
PopItems(list, batch_size) == SelectSeq(PopRaw(list, batch_size), WellFormed)

\* One tick of _drain_loop: _flush pops (LRANGE and LTRIM in one MULTI/EXEC
\* pipeline) and, when it got items, starts _batch_insert.
DrainFlush ==
    /\ drain_pc = "sleep"
    /\ rq_popped' = rq_popped \o PopRaw(rq, BatchDbSize)
    /\ rq_returned' = rq_returned \o PopItems(rq, BatchDbSize)
    /\ rq' = LTrim(rq, BatchDbSize)
    /\ drain_items' = PopItems(rq, BatchDbSize)
    /\ drain_pc' = IF PopItems(rq, BatchDbSize) = <<>> THEN "sleep" ELSE "identities"
    /\ UNCHANGED rq_pushed
    /\ UNCHANGED dbVars
    /\ UNCHANGED NotDrain

\* _batch_insert step 1: the identity rows of the batch, the set of the
\* (identity_id, identity_name) pairs of its items.
IdentityRowsPerItem(items) ==
    {<<items[i].iid, <<items[i].name, items[i].tid>>>> : i \in 1..Len(items)}
IdentityRows(items) ==
    {<<items[i].iid, items[i].name>> : i \in 1..Len(items)}

\* _batch_insert step 2: the template rows of the batch.
TemplateRows(items) ==
    {[tid |-> items[i].tid, iid |-> items[i].iid, blob |-> items[i].blob] :
        i \in 1..Len(items)}

\* executemany of the identity upsert ends: done, or raised (logged, and
\* _batch_insert returns: the items are dropped).
DrainUpsertIdentities(ok) ==
    /\ drain_pc = "identities"
    /\ IF ok
          THEN /\ db_identities' = db_identities \cup
                                    {r[1] : r \in IdentityRows(drain_items)}
               /\ drain_pc' = "templates"
               /\ UNCHANGED drain_items
          ELSE /\ drain_pc' = "sleep"
               /\ drain_items' = <<>>
               /\ UNCHANGED db_identities
    /\ UNCHANGED <<rq, rq_pushed, rq_popped, rq_returned, db_templates>>
    /\ UNCHANGED NotDrain

\* executemany of the template insert ends: done, or raised (logged).
DrainInsertTemplates(ok) ==
    /\ drain_pc = "templates"
    /\ db_templates' = IF ok THEN db_templates \cup TemplateRows(drain_items)
                             ELSE db_templates
    /\ drain_pc' = "sleep"
    /\ drain_items' = <<>>
    /\ UNCHANGED <<rq, rq_pushed, rq_popped, rq_returned, db_identities>>
    /\ UNCHANGED NotDrain

NextDrain ==
    \/ \E iid \in Identities : PushRecord(iid)
    \/ PushMalformed
    \/ DrainFlush
    \/ \E ok \in BOOLEAN : DrainUpsertIdentities(ok)
    \/ \E ok \in BOOLEAN : DrainInsertTemplates(ok)

SpecDrain == Init /\ [][NextDrain]_vars

StoredTemplateIds == {r.tid : r \in db_templates}

\* C8: a record whose batch insert failed is not lost: when the queue is
\* empty and the drain is between ticks, every well-formed record pushed
\* is a row of the store.
C8_FailedBatchNotLost ==
    (rq = <<>> /\ drain_pc = "sleep") =>
        \A i \in 1..Len(rq_pushed) :
            rq_pushed[i].wf => rq_pushed[i].tid \in StoredTemplateIds

\* C9: pops take from the head in push order, each payload exactly once (what
\* was popped, followed by what is still queued, is what was pushed); a pop
\* returns at most BatchDbSize records, the well-formed ones it took.
C9_PopAtomicFifo ==
    /\ rq_popped \o rq = rq_pushed
    /\ rq_returned = SelectSeq(rq_popped, WellFormed)
    /\ Len(drain_items) <= BatchDbSize
    /\ \A i \in 1..Len(drain_items) :
           drain_items[i] = rq_returned[Len(rq_returned) - Len(drain_items) + i]

C9_Witness ==
    /\ Len(rq_popped) >= BatchDbSize
    /\ rq # <<>>
    /\ Len(drain_items) = BatchDbSize

\* C32: the identity rows of a drain batch hold each identity id at most
\* once; the template rows of a batch are inserted only after its identity
\* rows were upserted; and every template row of the store names an
\* identity that has a row.
C32_IdentitiesBeforeTemplates ==
    /\ [](\A iid \in Identities :
            Cardinality({r \in IdentityRows(drain_items) : r[1] = iid}) <= 1)
    /\ [][db_templates' # db_templates =>
            /\ drain_pc = "templates"
            /\ \A r \in IdentityRows(drain_items) : r[1] \in db_identities]_vars
    /\ [](\A t \in db_templates : t.iid \in db_identities)

\* two records of one identity are in the batch whose template rows are
\* about to be inserted
C32_Witness ==
    /\ drain_pc = "templates"
    /\ Len(drain_items) = 2
    /\ drain_items[1].iid = drain_items[2].iid
    /\ drain_items[1].tid # drain_items[2].tid

(***************************************************************************)
(* 1:N matching (matcher.py)                                               *)
(***************************************************************************)
DedupThreshold == 32
    \* settings.dedup_threshold = 0.32, in hundredths
MatchThreshold == 39
    \* settings.match_threshold = 0.39, in hundredths

\* HammingDistanceMatcher.run(probe, gallery) of the iris library, in
\* hundredths: 0 for the same template, 35 for neighbouring templates (above
\* the dedup threshold, below the match threshold), 50 otherwise.
Dist(p, g) ==
    IF p = g THEN 0
    ELSE IF p - g = 1 \/ g - p = 1 THEN 35
    ELSE 50

\* The loop of _match over the snapshot, from entry i on: best is
\* [distance, entry] with entry the index of best_entry (0 for None).
\* `if distance < best_distance:`
NotWorse(distance, best_distance) == distance <= best_distance
Better(distance, best_distance) == distance < best_distance

RECURSIVE ScanBest(_, _, _, _)
ScanBest(probe, snap, i, best) ==
    IF i > Len(snap) THEN best
    ELSE ScanBest(probe, snap, i + 1,
                  IF Better(Dist(probe, snap[i].tpl), best.distance)
                     THEN [distance |-> Dist(probe, snap[i].tpl), entry |-> i]
                     ELSE best)

\* _match(probe_template, threshold) on the snapshot it took.
Match(probe, snap, threshold) ==
    IF snap = <<>> THEN NoResult
    ELSE LET best == ScanBest(probe, snap, 1, [distance |-> 100, entry |-> 0])
             is_match == best.distance < threshold
         IN [hamming_distance |-> best.distance,
             is_match |-> is_match,
             matched_identity_id |->
                 IF is_match /\ best.entry # 0 THEN snap[best.entry].iid ELSE None]

\* `with self._lock: entries = list(self._entries)`
Snapshot(es) == es

\* he_match_1n_local on a snapshot: the distances come from the decrypted
\* inner products and the result is formed as in _match.
HeMatch1nLocal(probe, snap, threshold) == Match(probe, snap, threshold)

\* he_match_1n on a snapshot: what request_decrypt_batch can return, the
\* key-service's result or the no-match result when it cannot be reached.
HeMatch1n(probe, snap, threshold) ==
    IF snap = <<>> THEN {NoResult}
    ELSE {Match(probe, snap, threshold), NoResult}

\* the query sends a batch to the key-service: _match_he_with_cts without
\* the secret key, past `if not entries`
CalledWhenRemote(snap, mode) == mode = "remote"
KeyServiceCalled(snap, mode) == mode = "remote" /\ snap # <<>>

\* _match, or _match_he and _match_he_with_cts, by settings.he_enabled and
\* has_secret_key(): the results the query can return
QueryResults(probe, snap, threshold, mode) ==
    IF mode = "off" THEN {Match(probe, snap, threshold)}
    ELSE IF snap = <<>> THEN {NoResult}
    ELSE IF mode = "local" THEN {HeMatch1nLocal(probe, snap, threshold)}
    ELSE HeMatch1n(probe, snap, threshold)

(***************************************************************************)
(* TemplateGallery (matcher.py)                                            *)
(***************************************************************************)
NotGallery == <<mlVars, rqVars, enrVars, poolVars, streamVars, callVars>>

\* The event loop of node n runs one coroutine step at a time: while
\* load_from_db builds and swaps (no await in between), no other coroutine
\* of the node runs.  Worker threads do run.
LoopFree(n) == load_pc[n] # "build"

\* the gallery list is replaced as a whole
SetEntries(n, list) ==
    /\ entries' = [entries EXCEPT ![n] = list]
    /\ gal_whole' = [gal_whole EXCEPT ![n] = list]

\* enroll(): a new entry with a fresh template id, appended under the lock.
EnrollAppend(es, tid, iid, tpl) == Append(es, [tid |-> tid, iid |-> iid, tpl |-> tpl])

\* remove_identity(): the entries of other identities, in order.
RemoveFirstOf(es, iid) ==
    IF \E i \in 1..Len(es) : es[i].iid = iid
       THEN LET k == CHOOSE i \in 1..Len(es) :
                        /\ es[i].iid = iid
                        /\ \A j \in 1..(i - 1) : es[j].iid # iid
            IN SubSeq(es, 1, k - 1) \o SubSeq(es, k + 1, Len(es))
       ELSE es
RemoveIdentity(es, iid) == SelectSeq(es, LAMBDA e : e.iid # iid)

\* what remove_identity returns: `before - len(self._entries)`
RemovedCount(es, iid) == Len(es) - Len(RemoveIdentity(es, iid))

\* gallery.enroll called from a worker thread.
GalleryEnroll(n, iid, tpl) ==
    /\ next_tid <= MaxTid
    /\ SetEntries(n, EnrollAppend(entries[n], next_tid, iid, tpl))
    /\ next_tid' = next_tid + 1
    /\ UNCHANGED <<dbVars, busVars, loadVars, mVars>>
    /\ UNCHANGED NotGallery

\* gallery.remove_identity called from a coroutine (routes/gallery.py).
GalleryRemove(n, iid) ==
    /\ LoopFree(n)
    /\ \E i \in 1..Len(entries[n]) : entries[n][i].iid = iid
    /\ SetEntries(n, RemoveIdentity(entries[n], iid))
    /\ UNCHANGED next_tid
    /\ UNCHANGED <<dbVars, busVars, loadVars, mVars>>
    /\ UNCHANGED NotGallery

(***************************************************************************)
(* Change bus and debounced reload (nats_service.py, matcher.load_from_db) *)
(***************************************************************************)
\* nc.publish on templates.changed: the message reaches every subscriber.
Publish(msg, subscribers) ==
    /\ published' = Append(published, msg)
    /\ nats_inbox' = [n \in Nodes |->
                        IF n \in subscribers THEN Append(nats_inbox[n], msg)
                                             ELSE nats_inbox[n]]

EnrolledMsg(node, tid, iid) ==
    [node_id |-> node, event |-> "enrolled", template_id |-> tid,
     identity_id |-> iid, count |-> 0]

CorruptBlob == <<"BAD", 0>>
    \* a blob unpack_codes raises on

\* the template the pipeline extracts from an image of identity iid's eye
EyeOf(iid) == ((iid - 1) % NumTemplates) + 1

\* A node that is not modelled enrolls: it commits the identity and the
\* template row, then publishes `enrolled` (run_enroll_async on that node).
\* The row's blob may be one this node cannot decode.
OtherNodeEnroll(iid, blob, subscribers) ==
    /\ next_tid <= MaxTid
    /\ db_identities' = db_identities \cup {iid}
    /\ db_templates' = db_templates \cup {[tid |-> next_tid, iid |-> iid, blob |-> blob]}
    /\ next_tid' = next_tid + 1
    /\ Publish(EnrolledMsg(OtherNode, next_tid, iid), subscribers)
    /\ UNCHANGED <<entries, gal_whole, loadVars, mVars>>
    /\ UNCHANGED NotGallery

\* `if source == node_id: return`
NeverSelf(source, n) == FALSE
IsSelf(source, n) == source = n

\* `if _reload_debounce_task and not _reload_debounce_task.done():
\*      _reload_debounce_task.cancel()`: the sleeping tasks afterwards
KeepPending(timers) == timers
CancelPending(timers) == {}

\* _nats_templates_changed_handler: drop the node's own message; otherwise
\* cancel the pending debounce task and start a new one.
TemplatesChangedHandler(n) ==
    /\ LoopFree(n)
    /\ nats_inbox[n] # <<>>
    /\ nats_inbox' = [nats_inbox EXCEPT ![n] = Tail(@)]
    /\ IF IsSelf(Head(nats_inbox[n]).node_id, n)
          THEN UNCHANGED loadVars
          ELSE /\ load_pc' = [load_pc EXCEPT ![n] = "sleep"]
               /\ load_rows' = [load_rows EXCEPT ![n] = <<>>]
               /\ new_entries' = [new_entries EXCEPT ![n] = <<>>]
               /\ load_fetched' = [load_fetched EXCEPT ![n] = <<>>]
               /\ load_gen' = [load_gen EXCEPT ![n] = @ + 1]
               /\ load_timers' = [load_timers EXCEPT ![n] =
                                     CancelPending(@) \cup {load_gen[n] + 1}]
               /\ UNCHANGED pool_open
    /\ UNCHANGED <<dbVars, galVars, published, mVars>>
    /\ UNCHANGED NotGallery

\* _debounced_reload: the sleep is over; load_from_db awaits load_all_templates.
DebounceFire(n) ==
    /\ load_pc[n] = "sleep"
    /\ \E t \in load_timers[n] :
           load_timers' = [load_timers EXCEPT ![n] = @ \ {t}]
    /\ load_pc' = [load_pc EXCEPT ![n] = "fetch"]
    /\ UNCHANGED <<load_rows, new_entries, load_gen, load_fetched, pool_open>>
    /\ UNCHANGED <<dbVars, galVars, busVars, mVars>>
    /\ UNCHANGED NotGallery

\* the orders in which a SELECT without ORDER BY may return the rows of S
RowOrders(S) == {s \in [1..Cardinality(S) -> S] : Range(s) = S}

\* the rows of the SELECT of load_all_templates: templates joined with
\* their identity
JoinedRows == {r \in db_templates : r.iid \in db_identities}

\* load_all_templates returns: no rows when the pool is None, else the
\* joined rows in some order.
ReloadFetch(n) ==
    /\ load_pc[n] = "fetch"
    /\ \E rows \in (IF pool_open[n] THEN RowOrders(JoinedRows) ELSE {<<>>}) :
           /\ load_rows' = [load_rows EXCEPT ![n] = rows]
           /\ load_fetched' = [load_fetched EXCEPT ![n] = rows]
    /\ new_entries' = [new_entries EXCEPT ![n] = <<>>]
    /\ load_pc' = [load_pc EXCEPT ![n] = "build"]
    /\ UNCHANGED <<load_gen, load_timers, pool_open>>
    /\ UNCHANGED <<dbVars, galVars, busVars, mVars>>
    /\ UNCHANGED NotGallery

\* self._entries while load_from_db appends to its local list
BuiltInPlace(current, building) == building
WhileBuilding(current, building) == current

\* the entry load_from_db makes of a row
EntryOfRow(row) == [tid |-> row.tid, iid |-> row.iid, tpl |-> UnpackCodes(row.blob)]

\* One turn of the loop over rows: decode and append, or log and skip.
ReloadBuildRow(n) ==
    /\ load_pc[n] = "build"
    /\ load_rows[n] # <<>>
    /\ LET row == Head(load_rows[n])
           built == IF Decodable(row.blob)
                       THEN Append(new_entries[n], EntryOfRow(row))
                       ELSE new_entries[n]
       IN /\ new_entries' = [new_entries EXCEPT ![n] = built]
          /\ entries' = [entries EXCEPT ![n] = WhileBuilding(@, built)]
    /\ load_rows' = [load_rows EXCEPT ![n] = Tail(@)]
    /\ UNCHANGED <<load_pc, gal_whole, next_tid>>
    /\ UNCHANGED <<load_gen, load_timers, load_fetched, pool_open>>
    /\ UNCHANGED <<dbVars, busVars, mVars>>
    /\ UNCHANGED NotGallery

\* `self._entries = new_entries`: the list the gallery holds afterwards
AppendBuilt(current, built) == current \o built
SwapIn(current, built) == built

\* `with self._lock: self._entries = new_entries`, and the task ends.
ReloadSwap(n) ==
    /\ load_pc[n] = "build"
    /\ load_rows[n] = <<>>
    /\ SetEntries(n, SwapIn(entries[n], new_entries[n]))
    /\ new_entries' = [new_entries EXCEPT ![n] = <<>>]
    /\ load_fetched' = [load_fetched EXCEPT ![n] = <<>>]
    /\ load_pc' = [load_pc EXCEPT ![n] = "idle"]
    /\ UNCHANGED <<load_rows, next_tid, load_gen, load_timers, pool_open>>
    /\ UNCHANGED <<dbVars, busVars, mVars>>
    /\ UNCHANGED NotGallery

(***************************************************************************)
(* 1:N queries in worker threads (gallery.match, gallery.check_duplicate)  *)
(***************************************************************************)
\* _match: the snapshot is taken under the lock.
MatchSnapshot(m, n, probe, threshold) ==
    /\ m_pc[m] = "idle"
    /\ m_pc' = [m_pc EXCEPT ![m] = "scan"]
    /\ m_call' = [m_call EXCEPT ![m] = [node |-> n, probe |-> probe, threshold |-> threshold]]
    /\ m_snap' = [m_snap EXCEPT ![m] = Snapshot(entries[n])]
    /\ m_at' = [m_at EXCEPT ![m] = IF load_pc[n] = "build" THEN "build" ELSE "idle"]
    /\ m_seen' = [m_seen EXCEPT ![m] = gal_whole[n]]
    /\ m_result' = [m_result EXCEPT ![m] = NoResult]
    /\ m_touched' = [m_touched EXCEPT ![m] = {}]
    /\ UNCHANGED he_mode
    /\ UNCHANGED <<dbVars, galVars, busVars, loadVars>>
    /\ UNCHANGED NotGallery

\* _match or _match_he_with_cts after the snapshot: the loop over the
\* snapshot, and the result.
MatchScan(m) ==
    /\ m_pc[m] = "scan"
    /\ m_pc' = [m_pc EXCEPT ![m] = "idle"]
    /\ \E res \in QueryResults(m_call[m].probe, m_snap[m],
                                m_call[m].threshold, he_mode) :
           m_result' = [m_result EXCEPT ![m] = res]
    /\ m_touched' = [m_touched EXCEPT ![m] =
                        IF KeyServiceCalled(m_snap[m], he_mode)
                           THEN {"key_service"} ELSE {}]
    /\ UNCHANGED he_mode
    /\ m_snap' = [m_snap EXCEPT ![m] = <<>>]
    /\ m_seen' = [m_seen EXCEPT ![m] = <<>>]
    /\ m_at' = [m_at EXCEPT ![m] = "idle"]
    /\ m_call' = [m_call EXCEPT ![m] = NoCall]
    /\ UNCHANGED <<dbVars, galVars, busVars, loadVars>>
    /\ UNCHANGED NotGallery

NextGallery ==
    \/ \E iid \in Identities : GalleryEnroll(1, iid, EyeOf(iid))
    \/ \E iid \in Identities : GalleryRemove(1, iid)
    \/ \E iid \in Identities : OtherNodeEnroll(iid, PackCodes(EyeOf(iid)), {1})
    \/ OtherNodeEnroll(1, CorruptBlob, {1})
    \/ TemplatesChangedHandler(1)
    \/ DebounceFire(1)
    \/ ReloadFetch(1)
    \/ ReloadBuildRow(1)
    \/ ReloadSwap(1)
    \/ \E m \in Matchers, probe \in Templates :
         \E threshold \in {MatchThreshold, DedupThreshold} :
             MatchSnapshot(m, 1, probe, threshold)
    \/ \E m \in Matchers : MatchScan(m)

SpecGallery == Init /\ [][NextGallery]_vars

\* C1: the list a 1:N query iterates is the whole gallery list as it stood
\* at the instant of the snapshot, the result of a completed enroll, remove
\* or reload swap (the complete pre-reload or post-reload list); the gallery
\* is never a list under construction.
C1_SnapshotIsWholeList ==
    /\ \A n \in Nodes : entries[n] = gal_whole[n]
    /\ \A m \in Matchers : m_pc[m] = "scan" => m_snap[m] = m_seen[m]

\* a query took its snapshot while a reload was half way through a list of
\* at least two rows that differs from the gallery
C1_Witness ==
    \E m \in Matchers :
        /\ m_pc[m] = "scan"
        /\ m_at[m] = "build"
        /\ load_pc[1] = "build"
        /\ Len(new_entries[1]) = 1
        /\ load_rows[1] # <<>>
        /\ m_snap[m] # new_entries[1]
        /\ m_snap[m] # <<>>

(***************************************************************************)
(* Single enrollment on node 1 (core.py), with a store configured          *)
(* (settings.db_url set: the pool exists from startup to shutdown).        *)
(***************************************************************************)
NotEnroll == <<mlVars, rqVars, loadVars, mVars, poolVars, streamVars,
              callVars>>

\* request r enrolls identity r (ids above NumIdentities wrap around)
RequestIdentity(r) == ((r - 1) % NumIdentities) + 1

\* the single worker of core.pool runs one run_enroll_sync at a time
ExecutorBusy == \E r \in Requests : e_pc[r] \in {"dedup", "enroll"}

\* run_enroll_sync, up to the template: decode_jpeg and analyze fail
\* (response with error, nothing else happens) or give the template.  The
\* executor takes the requests in the order they were submitted, which is
\* the order of their numbers.
EnrollAnalyze(r, iid, tpl, ok) ==
    /\ e_pc[r] = "new"
    /\ \A j \in Requests : j < r => e_pc[j] # "new"
    /\ ~ExecutorBusy
    /\ e_req' = [e_req EXCEPT ![r] = [iid |-> iid, tpl |-> tpl]]
    /\ e_pc' = [e_pc EXCEPT ![r] = IF ok THEN "dedup" ELSE "returned"]
    /\ e_response' = [e_response EXCEPT ![r] = [NoResponse EXCEPT !.error = ~ok]]
    /\ UNCHANGED <<nats_connected, e_trace>>
    /\ UNCHANGED <<dbVars, galVars, busVars>>
    /\ UNCHANGED NotEnroll

\* check_duplicate: `if result and result.is_match: return
\* result.matched_identity_id`, and `if dup_id is not None` of run_enroll_sync
NeverDuplicate(res) == FALSE
IsDuplicate(res) == res.is_match /\ res.matched_identity_id # None

\* gallery.check_duplicate(template): a 1:N query at the dedup threshold on a
\* snapshot; a duplicate ends the request.
EnrollCheckDuplicate(r) ==
    /\ e_pc[r] = "dedup"
    /\ LET res == Match(e_req[r].tpl, Snapshot(entries[1]), DedupThreshold) IN
        IF IsDuplicate(res)
           THEN /\ e_pc' = [e_pc EXCEPT ![r] = "returned"]
                /\ e_response' = [e_response EXCEPT ![r] =
                       [NoResponse EXCEPT !.is_duplicate = TRUE,
                                          !.duplicate_identity_id = res.matched_identity_id]]
           ELSE /\ e_pc' = [e_pc EXCEPT ![r] = "enroll"]
                /\ UNCHANGED e_response
    /\ UNCHANGED <<nats_connected, e_req, e_trace>>
    /\ UNCHANGED <<dbVars, galVars, busVars>>
    /\ UNCHANGED NotEnroll

\* gallery.enroll: the entry is appended; run_enroll_sync returns the
\* response with the template id to run_enroll_async.
EnrollGallery(r) ==
    /\ e_pc[r] = "enroll"
    /\ next_tid <= MaxTid
    /\ SetEntries(1, EnrollAppend(entries[1], next_tid, e_req[r].iid, e_req[r].tpl))
    /\ next_tid' = next_tid + 1
    /\ e_response' = [e_response EXCEPT ![r] = [NoResponse EXCEPT !.template_id = next_tid]]
    /\ e_trace' = [e_trace EXCEPT ![r] = Append(@, "gallery")]
    /\ e_pc' = [e_pc EXCEPT ![r] = "lookup"]
    /\ UNCHANGED <<nats_connected, e_req>>
    /\ UNCHANGED <<dbVars, busVars>>
    /\ UNCHANGED NotEnroll

\* run_enroll_async looks the entry up by template id (under the lock); with
\* no entry nothing is persisted and the response is returned as it is.
EnrollLookup(r) ==
    /\ e_pc[r] = "lookup"
    /\ LoopFree(1)
    /\ e_pc' = [e_pc EXCEPT ![r] =
                   IF \E i \in 1..Len(entries[1]) :
                          entries[1][i].tid = e_response[r].template_id
                      THEN "identity" ELSE "returned"]
    /\ UNCHANGED <<nats_connected, e_req, e_response, e_trace>>
    /\ UNCHANGED <<dbVars, galVars, busVars>>
    /\ UNCHANGED NotEnroll

\* The try block of run_enroll_async: a store call that raises is logged by
\* `except Exception` and the response is returned; otherwise the next call.
IgnoreStoreError(ok, next) == next
AfterStoreCall(ok, next) == IF ok THEN next ELSE "returned"

\* `await ensure_identity(...)` ends: the upsert is committed, or raised.
EnrollEnsureIdentity(r, ok) ==
    /\ e_pc[r] = "identity"
    /\ LoopFree(1)
    /\ db_identities' = IF ok THEN db_identities \cup {e_req[r].iid} ELSE db_identities
    /\ e_pc' = [e_pc EXCEPT ![r] = AfterStoreCall(ok, "persist")]
    /\ UNCHANGED <<nats_connected, e_req, e_response, e_trace>>
    /\ UNCHANGED <<db_templates, galVars, busVars>>
    /\ UNCHANGED NotEnroll

\* `await persist_template(...)` ends: the row is committed, or raised.
EnrollPersist(r, ok) ==
    /\ e_pc[r] = "persist"
    /\ LoopFree(1)
    /\ IF ok
          THEN /\ db_templates' = db_templates \cup
                      {[tid |-> e_response[r].template_id, iid |-> e_req[r].iid,
                        blob |-> PackCodes(e_req[r].tpl)]}
               /\ e_trace' = [e_trace EXCEPT ![r] = Append(@, "store")]
          ELSE UNCHANGED <<db_templates, e_trace>>
    /\ e_pc' = [e_pc EXCEPT ![r] = AfterStoreCall(ok, "publish")]
    /\ UNCHANGED <<nats_connected, e_req, e_response>>
    /\ UNCHANGED <<db_identities, galVars, busVars>>
    /\ UNCHANGED NotEnroll

\* the `enrolled` message is published when NATS is connected; the response
\* is returned.
EnrollPublish(r, subscribers) ==
    /\ e_pc[r] = "publish"
    /\ LoopFree(1)
    /\ IF nats_connected
          THEN /\ Publish(EnrolledMsg(1, e_response[r].template_id, e_req[r].iid),
                          subscribers)
               /\ e_trace' = [e_trace EXCEPT ![r] = Append(@, "event")]
          ELSE UNCHANGED <<busVars, e_trace>>
    /\ e_pc' = [e_pc EXCEPT ![r] = "returned"]
    /\ UNCHANGED <<nats_connected, e_req, e_response>>
    /\ UNCHANGED <<dbVars, galVars>>
    /\ UNCHANGED NotEnroll

NextEnroll ==
    \/ \E r \in Requests, tpl \in Templates, ok \in BOOLEAN :
           EnrollAnalyze(r, RequestIdentity(r), tpl, ok)
    \/ \E r \in Requests : EnrollCheckDuplicate(r)
    \/ \E r \in Requests : EnrollGallery(r)
    \/ \E r \in Requests : EnrollLookup(r)
    \/ \E r \in Requests, ok \in BOOLEAN : EnrollEnsureIdentity(r, ok)
    \/ \E r \in Requests, ok \in BOOLEAN : EnrollPersist(r, ok)
    \/ \E r \in Requests : EnrollPublish(r, {1})
    \/ OtherNodeEnroll(1, PackCodes(EyeOf(1)), {1})
    \/ TemplatesChangedHandler(1)
    \/ DebounceFire(1)
    \/ ReloadFetch(1)
    \/ ReloadBuildRow(1)
    \/ ReloadSwap(1)

SpecEnroll == Init /\ [][NextEnroll]_vars

\* position of the first effect of that kind in a request's trace, 0 when
\* absent
FirstAt(trace, kind) ==
    IF \E k \in 1..Len(trace) : trace[k] = kind
       THEN CHOOSE k \in 1..Len(trace) :
                /\ trace[k] = kind
                /\ \A j \in 1..(k - 1) : trace[j] # kind
       ELSE 0

\* C2: a single enrollment returns a template id only when a template row
\* with that id is committed in the store.
C2_ReturnedIdIsCommitted ==
    \A r \in Requests :
        (e_pc[r] = "returned" /\ e_response[r].template_id # None)
            => e_response[r].template_id \in StoredTemplateIds

\* C3: for every template of a single enrollment, the gallery append comes
\* before the store commit and the store commit before the `enrolled`
\* message; no `enrolled` message is published without the commit.
C3_GalleryThenStoreThenEvent ==
    \A r \in Requests : \A k \in 1..Len(e_trace[r]) :
        /\ e_trace[r][k] = "event" =>
               /\ FirstAt(e_trace[r], "store") # 0
               /\ FirstAt(e_trace[r], "store") < k
               /\ e_response[r].template_id \in StoredTemplateIds
        /\ e_trace[r][k] = "store" =>
               /\ FirstAt(e_trace[r], "gallery") # 0
               /\ FirstAt(e_trace[r], "gallery") < k

\* an enrollment went through all three effects while another one failed in
\* the store and published nothing
C3_Witness ==
    \E r1, r2 \in Requests :
        /\ e_pc[r1] = "returned" /\ e_pc[r2] = "returned"
        /\ e_trace[r1] = <<"gallery", "store", "event">>
        /\ e_trace[r2] = <<"gallery">>

(***************************************************************************)
(* Batch workers and the pipeline pool (routes/enroll.py, pipeline_pool.py)*)
(***************************************************************************)
NotPool == <<mlVars, rqVars, dbVars, busVars, loadVars, mVars, enrVars,
            callVars>>

\* identity_id = uuid5(ns, subject_id): item i belongs to subject i
\* (subjects above NumIdentities wrap around: the two eyes of one subject)
ItemIdentity(i) == ((i - 1) % NumIdentities) + 1

\* the work items a thread of _batch_pool is running
Running == {i \in Items : w_pc[i] \in {"acquire", "analyze", "dedup", "enroll"}}

\* PipelinePool.release: queue.put
Release(pool, pipe) == Append(pool, pipe)

\* the finally clause of _process_one: `if pipe is not None: pool.release(pipe)`
FinallyForget(pool, pipe) == pool
FinallyAlways(pool, pipe) == Release(pool, pipe)
FinallyRelease(pool, pipe) == IF pipe # None THEN Release(pool, pipe) ELSE pool

\* _process_one returns `result` through its finally clause; the future of
\* the item completes.
ProcessOneReturns(i, pool, pipe, result) ==
    /\ pp_pool' = FinallyRelease(pool, pipe)
    /\ w_pipe' = [w_pipe EXCEPT ![i] = None]
    /\ w_result' = [w_result EXCEPT ![i] = result]
    /\ w_pc' = [w_pc EXCEPT ![i] = "done"]
    /\ b_completed' = Append(b_completed, i)

\* _stream submits every work item to _batch_pool and enters the loop over
\* as_completed.
BatchSubmit ==
    /\ s_pc = "new"
    /\ s_pc' = "loop"
    /\ w_pc' = [i \in Items |-> "queued"]
    /\ UNCHANGED <<pp_pool, w_pipe, w_tpl, w_result, b_completed>>
    /\ UNCHANGED <<s_out, s_taken, enrolled_count, dup_count, error_count>>
    /\ UNCHANGED galVars
    /\ UNCHANGED NotPool

\* A free thread of _batch_pool takes the oldest queued item; _process_one
\* reads and decodes the file (an exception ends the item with an error).
WStart(i, ok) ==
    /\ w_pc[i] = "queued"
    /\ \A j \in Items : j < i => w_pc[j] # "queued"
    /\ Cardinality(Running) < BatchWorkers
    /\ IF ok
          THEN /\ w_pc' = [w_pc EXCEPT ![i] = "acquire"]
               /\ UNCHANGED <<pp_pool, w_pipe, w_result, b_completed>>
          ELSE ProcessOneReturns(i, pp_pool, w_pipe[i],
                                 [NoBulkResult EXCEPT !.error = "read"])
    /\ UNCHANGED w_tpl
    /\ UNCHANGED <<streamVars, galVars>>
    /\ UNCHANGED NotPool

\* pool.acquire(timeout=30.0) returns the oldest available instance.
WAcquire(i) ==
    /\ w_pc[i] = "acquire"
    /\ pp_pool # <<>>
    /\ w_pipe' = [w_pipe EXCEPT ![i] = Head(pp_pool)]
    /\ pp_pool' = Tail(pp_pool)
    /\ w_pc' = [w_pc EXCEPT ![i] = "analyze"]
    /\ UNCHANGED <<w_tpl, w_result, b_completed>>
    /\ UNCHANGED <<streamVars, galVars>>
    /\ UNCHANGED NotPool

\* pool.acquire raises TimeoutError: no instance became available in time.
WAcquireTimeout(i) ==
    /\ w_pc[i] = "acquire"
    /\ pp_pool = <<>>
    /\ ProcessOneReturns(i, pp_pool, w_pipe[i],
                         [NoBulkResult EXCEPT !.error = "timeout"])
    /\ UNCHANGED w_tpl
    /\ UNCHANGED <<streamVars, galVars>>
    /\ UNCHANGED NotPool

\* analyze(...) with the borrowed instance: it raises (the except clause
\* records the error, the finally clause releases), or it returns and the
\* instance is released at once; then an error, no template, or a template.
WAnalyze(i, tpl, outcome) ==
    /\ w_pc[i] = "analyze"
    /\ IF outcome = "raise"
          THEN /\ ProcessOneReturns(i, pp_pool, w_pipe[i],
                                    [NoBulkResult EXCEPT !.error = "exception"])
               /\ UNCHANGED w_tpl
          ELSE IF outcome = "ok"
          THEN /\ pp_pool' = Release(pp_pool, w_pipe[i])
               /\ w_pipe' = [w_pipe EXCEPT ![i] = None]
               /\ w_tpl' = [w_tpl EXCEPT ![i] = tpl]
               /\ w_pc' = [w_pc EXCEPT ![i] = "dedup"]
               /\ UNCHANGED <<w_result, b_completed>>
          ELSE /\ ProcessOneReturns(i, Release(pp_pool, w_pipe[i]), None,
                                    [NoBulkResult EXCEPT !.error = outcome])
               /\ UNCHANGED w_tpl
    /\ UNCHANGED <<streamVars, galVars>>
    /\ UNCHANGED NotPool

\* gallery.check_duplicate(template): a duplicate ends the item.
WCheckDuplicate(i) ==
    /\ w_pc[i] = "dedup"
    /\ LET res == Match(w_tpl[i], Snapshot(entries[1]), DedupThreshold) IN
        IF res.is_match
           THEN ProcessOneReturns(i, pp_pool, w_pipe[i],
                    [NoBulkResult EXCEPT !.is_duplicate = TRUE,
                                         !.duplicate_identity_id = res.matched_identity_id])
           ELSE /\ w_pc' = [w_pc EXCEPT ![i] = "enroll"]
                /\ UNCHANGED <<pp_pool, w_pipe, w_result, b_completed>>
    /\ UNCHANGED w_tpl
    /\ UNCHANGED <<streamVars, galVars>>
    /\ UNCHANGED NotPool

\* gallery.enroll(...): the entry is appended; the item ends with its
\* template id.
WEnroll(i) ==
    /\ w_pc[i] = "enroll"
    /\ next_tid <= MaxTid
    /\ SetEntries(1, EnrollAppend(entries[1], next_tid, ItemIdentity(i), w_tpl[i]))
    /\ next_tid' = next_tid + 1
    /\ ProcessOneReturns(i, pp_pool, w_pipe[i],
                         [NoBulkResult EXCEPT !.template_id = next_tid])
    /\ UNCHANGED w_tpl
    /\ UNCHANGED streamVars
    /\ UNCHANGED NotPool

\* the finally clause of _stream: `for f in futures: f.cancel()`; a future
\* whose work item no thread has taken is cancelled, the others are not.
CancelNothing(pcs) == pcs
CancelFutures(pcs) == [i \in Items |-> IF pcs[i] = "queued" THEN "cancelled" ELSE pcs[i]]

\* The caller disconnects while _stream waits in its loop: the generator is
\* closed and its finally clause cancels the futures; those still queued
\* never run.
StreamDisconnect ==
    /\ s_pc = "loop"
    /\ s_pc' = "closed"
    /\ w_pc' = CancelFutures(w_pc)
    /\ UNCHANGED <<pp_pool, w_pipe, w_tpl, w_result, b_completed>>
    /\ UNCHANGED <<s_out, s_taken, enrolled_count, dup_count, error_count>>
    /\ UNCHANGED galVars
    /\ UNCHANGED NotPool

\* The workers of one batch.  The stream's handling of results changes no
\* variable a worker reads, so the workers are followed without it here.
NextPool ==
    \/ BatchSubmit
    \/ \E i \in Items, ok \in BOOLEAN : WStart(i, ok)
    \/ \E i \in Items : WAcquire(i)
    \/ \E i \in Items : WAcquireTimeout(i)
    \/ \E i \in Items, tpl \in Templates :
         \E outcome \in {"ok", "pipeline", "no_template", "raise"} :
             WAnalyze(i, tpl, outcome)
    \/ \E i \in Items : WCheckDuplicate(i)
    \/ \E i \in Items : WEnroll(i)
    \/ StreamDisconnect

SpecPool == Init /\ [][NextPool]_vars

\* the instances workers hold
Held == {w_pipe[i] : i \in Items} \ {None}

\* C10: the instances in the pool and the instances held by workers are
\* PoolSize together, no instance is in two places or with two workers, a
\* worker holds an instance only between acquire and release, and when every
\* worker has finished on whatever path the pool holds all PoolSize instances.
C10_PoolConserved ==
    /\ Len(pp_pool) + Cardinality({i \in Items : w_pipe[i] # None}) = PoolSize
    /\ Range(pp_pool) \cup Held = Instances
    /\ \A i, j \in Items : (i # j /\ w_pipe[i] # None) => w_pipe[i] # w_pipe[j]
    /\ \A i \in Items : w_pipe[i] # None => w_pc[i] = "analyze"
    /\ (\A i \in Items : w_pc[i] \in {"done", "cancelled"}) => Len(pp_pool) = PoolSize

\* every item of a submitted batch has finished: one through an exception
\* raised while it held an instance, another after a normal release
C10_Witness ==
    /\ \A i \in Items : w_pc[i] = "done"
    /\ \E i \in Items : w_result[i].error = "exception"
    /\ \E i \in Items : w_result[i].template_id # None
    /\ Len(pp_pool) = PoolSize

\* C11: a worker that leaves acquire without an instance did so because the
\* pool was empty (TimeoutError); the pool is left as it was, the item
\* carries an error and the worker holds and releases no instance.
C11_AcquireTimeout ==
    [][\A i \in Items :
          (w_pc[i] = "acquire" /\ w_pc'[i] = "done") =>
              /\ pp_pool = <<>>
              /\ pp_pool' = pp_pool
              /\ w_result'[i].error = "timeout"
              /\ w_pipe'[i] = None
              /\ b_completed' = Append(b_completed, i)]_vars

\* an item ended with the timeout error while another worker still holds
\* the only instance
C11_Witness ==
    \E i, j \in Items :
        /\ w_pc[i] = "done" /\ w_result[i].error = "timeout"
        /\ w_pc[j] = "analyze" /\ w_pipe[j] # None
        /\ pp_pool = <<>>

\* Every thread of _batch_pool keeps running: a file read, an analysis and
\* a gallery call end, and acquire returns an instance or times out.
SpecPoolFair ==
    /\ SpecPool
    /\ \A i \in Items :
           /\ WF_vars(\E ok \in BOOLEAN : WStart(i, ok))
           /\ WF_vars(WAcquire(i) \/ WAcquireTimeout(i))
           /\ WF_vars(\E tpl \in Templates :
                        \E outcome \in {"ok", "pipeline", "no_template", "raise"} :
                            WAnalyze(i, tpl, outcome))
           /\ WF_vars(WCheckDuplicate(i))
           /\ WF_vars(WEnroll(i))

\* C15: once the caller has disconnected no work item is left waiting for a
\* thread (those not started are cancelled), and eventually all work items
\* have ended and every instance is back in the pool.
C15_DisconnectReturnsInstances ==
    /\ [](s_pc = "closed" => \A i \in Items : w_pc[i] # "queued")
    /\ (s_pc = "closed") ~>
           (/\ \A i \in Items : w_pc[i] \in {"done", "cancelled"}
            /\ Len(pp_pool) = PoolSize)

\* the caller disconnected while one item was running and another had not
\* started: that one is cancelled, the running one has ended, the pool is full
C15_Witness ==
    /\ s_pc = "closed"
    /\ \E i \in Items : w_pc[i] = "cancelled"
    /\ \E i \in Items : w_pc[i] = "done" /\ w_result[i].error # "read"
    /\ Len(pp_pool) = PoolSize

(***************************************************************************)
(* The stream of a batch enrollment on node 1 (routes/enroll.py), with     *)
(* Redis and a store configured, the drain task, and node 2 on the bus.    *)
(***************************************************************************)
NotStream == <<mlVars, loadVars, mVars, enrVars, callVars>>

BulkEnrolledMsg(node, count) ==
    [node_id |-> node, event |-> "bulk_enrolled", template_id |-> None,
     identity_id |-> None, count |-> count]

\* the events of the stream: `data: <result>` and `event: done` with the
\* summary
DataEvent(i) ==
    [event |-> "data", item |-> i, total |-> 0, enrolled |-> 0,
     duplicates |-> 0, errors |-> 0]
SummaryEvent(total, enrolled, duplicates, errors) ==
    [event |-> "done", item |-> None, total |-> total, enrolled |-> enrolled,
     duplicates |-> duplicates, errors |-> errors]

\* the gallery entry _push_persistence finds for a template id: its index
\* in the list, 0 when there is none
EntryIndex(es, tid) ==
    IF \E k \in 1..Len(es) : es[k].tid = tid
       THEN CHOOSE k \in 1..Len(es) : es[k].tid = tid
       ELSE 0

\* _push_persistence(template_id, identity_id, ...): nothing without the
\* gallery entry; else push_enrollment ("redis"), or when the push raises
\* the direct write: both rows ("db"), the identity row only because
\* persist_template raises ("db_identity"), or nothing because
\* ensure_identity raises ("fail"; a push_enrollment that returns at
\* `if not r` without a connection leaves nothing either).
PushPersistence(tid, iid, how) ==
    LET k == EntryIndex(entries[1], tid) IN
        IF k = 0
           THEN UNCHANGED <<rq, rq_pushed, dbVars>>
        ELSE IF how = "redis"
           THEN /\ PushEnrollment(tid, iid, PackCodes(entries[1][k].tpl))
                /\ UNCHANGED dbVars
        ELSE /\ UNCHANGED <<rq, rq_pushed>>
             /\ db_identities' = IF how \in {"db", "db_identity"}
                                     THEN db_identities \cup {iid}
                                     ELSE db_identities
             /\ db_templates' = IF how = "db"
                                    THEN db_templates \cup
                                         {[tid |-> tid, iid |-> iid,
                                           blob |-> PackCodes(entries[1][k].tpl)]}
                                    ELSE db_templates

\* asyncio.as_completed: the next future handed to the loop is the next in
\* completion order.
NextInWorkOrder(completed, taken) == taken + 1
NextResult(completed, taken) == completed[taken + 1]

\* `if result.error: ... elif result.is_duplicate: ... else: ...`: the
\* counters a result increments
CountedIndependently(result) ==
    (IF result.error # "" THEN {"errors"} ELSE {}) \cup
    (IF result.is_duplicate THEN {"duplicates"} ELSE {"enrolled"})
Counted(result) ==
    IF result.error # "" THEN {"errors"}
    ELSE IF result.is_duplicate THEN {"duplicates"}
    ELSE {"enrolled"}

\* One turn of the loop over as_completed: the next completed result is
\* counted, an enrolled template is handed to _push_persistence, and the
\* result is yielded.  When pack_codes raises in _push_persistence
\* ("pack_raises") the exception leaves _stream: nothing is yielded and the
\* finally clause cancels the futures.
StreamTake(how) ==
    /\ s_pc = "loop"
    /\ s_taken < Len(b_completed)
    /\ LoopFree(1)
    /\ LET i == NextResult(b_completed, s_taken)
           result == w_result[i]
           enrolls == result.error = "" /\ ~result.is_duplicate
           raises == /\ enrolls
                     /\ how = "pack_raises"
                     /\ EntryIndex(entries[1], result.template_id) # 0
       IN /\ error_count' = IF "errors" \in Counted(result)
                                THEN error_count + 1 ELSE error_count
          /\ dup_count' = IF "duplicates" \in Counted(result)
                              THEN dup_count + 1 ELSE dup_count
          /\ enrolled_count' = IF "enrolled" \in Counted(result)
                                  THEN enrolled_count + 1 ELSE enrolled_count
          /\ IF enrolls /\ ~raises /\ result.template_id # None
                THEN PushPersistence(result.template_id, ItemIdentity(i), how)
                ELSE UNCHANGED <<rq, rq_pushed, dbVars>>
          /\ IF raises
                THEN /\ s_pc' = "failed"
                     /\ w_pc' = CancelFutures(w_pc)
                     /\ UNCHANGED s_out
                ELSE /\ s_out' = Append(s_out, DataEvent(i))
                     /\ UNCHANGED <<s_pc, w_pc>>
    /\ s_taken' = s_taken + 1
    /\ UNCHANGED <<pp_pool, w_pipe, w_tpl, w_result, b_completed>>
    /\ UNCHANGED <<rq_popped, rq_returned, drain_pc, drain_items>>
    /\ UNCHANGED <<galVars, busVars>>
    /\ UNCHANGED NotStream

\* After the loop: `bulk_enrolled` is published when something was enrolled
\* and NATS is connected; the summary is yielded and the stream ends.
StreamFinish ==
    /\ s_pc = "loop"
    /\ s_taken = NumItems
    /\ LoopFree(1)
    /\ IF enrolled_count > 0 /\ nats_connected
          THEN Publish(BulkEnrolledMsg(1, enrolled_count), Nodes)
          ELSE UNCHANGED busVars
    /\ s_out' = Append(s_out, SummaryEvent(NumItems, enrolled_count, dup_count,
                                            error_count))
    /\ s_pc' = "done"
    /\ UNCHANGED <<s_taken, enrolled_count, dup_count, error_count>>
    /\ UNCHANGED <<rqVars, dbVars, galVars, poolVars>>
    /\ UNCHANGED NotStream

\* the results the stream has counted as enrolled, and their template ids
CountedItems ==
    {b_completed[k] : k \in 1..s_taken} \cap
        {i \in Items : w_result[i].template_id # None}
CountedTids == {w_result[i].template_id : i \in CountedItems}

\* One batch enrollment on node 1: its workers and its stream.
NextStream ==
    \/ BatchSubmit
    \/ \E i \in Items, ok \in BOOLEAN : WStart(i, ok)
    \/ \E i \in Items : WAcquire(i)
    \/ \E i \in Items : WAcquireTimeout(i)
    \/ \E i \in Items, tpl \in Templates :
         \E outcome \in {"ok", "pipeline", "no_template", "raise"} :
             WAnalyze(i, tpl, outcome)
    \/ \E i \in Items : WCheckDuplicate(i)
    \/ \E i \in Items : WEnroll(i)
    \/ \E how \in {"redis", "db", "db_identity", "fail", "pack_raises"} :
           StreamTake(how)
    \/ StreamFinish
    \/ StreamDisconnect

SpecStream == Init /\ [][NextStream]_vars

\* C12: the data events are the completed items in completion order, one
\* per item; a stream that ran to completion has yielded one data event for
\* every item of the work list and then the summary, once.
C12_DataEventsThenSummary ==
    /\ \A k \in 1..Len(s_out) :
           s_out[k].event = "data" =>
               k <= Len(b_completed) /\ s_out[k].item = b_completed[k]
    /\ \A k \in 1..Len(s_out) : s_out[k].event = "done" => s_pc = "done"
    /\ s_pc = "done" =>
           /\ Len(s_out) = NumItems + 1
           /\ \A i \in Items :
                  Cardinality({k \in 1..Len(s_out) : s_out[k] = DataEvent(i)}) = 1
           /\ \A k \in 1..NumItems : s_out[k].event = "data"
           /\ s_out[NumItems + 1].event = "done"

\* a stream ran to completion whose items completed in another order than
\* the work list
C12_Witness ==
    /\ s_pc = "done"
    /\ \E k \in 1..Len(b_completed) : b_completed[k] # k

\* the `bulk_enrolled` messages published so far
BulkEvents == SelectSeq(published, LAMBDA msg : msg.event = "bulk_enrolled")

\* C13: a batch that ran to completion has published exactly one
\* `bulk_enrolled` message, and its count is the summary's `enrolled`.
C13_OneBulkEvent ==
    s_pc = "done" =>
        /\ Len(BulkEvents) = 1
        /\ BulkEvents[1].count = s_out[Len(s_out)].enrolled

\* the items that failed: in the worker, or in the persistence of their
\* template (neither queued in Redis nor written to the store)
FailedItems ==
    {i \in Items : w_pc[i] = "done" /\ w_result[i].error # ""} \cup
    {i \in CountedItems :
        /\ \A k \in 1..Len(rq_pushed) : rq_pushed[k].tid # w_result[i].template_id
        /\ w_result[i].template_id \notin StoredTemplateIds}

\* C14: a failing item never ends the batch, and when no item is a
\* duplicate the summary of n items of which k failed is total = n,
\* enrolled = n - k, duplicates = 0, errors = k.
C14_FailuresCountedPerItem ==
    /\ s_pc # "failed"
    /\ (s_pc = "done" /\ \A i \in Items : ~w_result[i].is_duplicate) =>
           s_out[Len(s_out)] =
               SummaryEvent(NumItems, NumItems - Cardinality(FailedItems), 0,
                            Cardinality(FailedItems))

NextBatch ==
    \/ BatchSubmit
    \/ \E i \in Items, ok \in BOOLEAN : WStart(i, ok)
    \/ \E i \in Items : WAcquire(i)
    \/ \E i \in Items : WAcquireTimeout(i)
    \/ \E i \in Items, tpl \in Templates :
         \E outcome \in {"ok", "pipeline", "no_template", "raise"} :
             WAnalyze(i, tpl, outcome)
    \/ \E i \in Items : WCheckDuplicate(i)
    \/ \E i \in Items : WEnroll(i)
    \/ \E how \in {"redis", "db", "db_identity", "fail", "pack_raises"} :
           StreamTake(how)
    \/ StreamFinish
    \/ StreamDisconnect
    \/ DrainFlush
    \/ \E ok \in BOOLEAN : DrainUpsertIdentities(ok)
    \/ \E ok \in BOOLEAN : DrainInsertTemplates(ok)
    \/ \E n \in Nodes : TemplatesChangedHandler(n)
    \/ DebounceFire(2)
    \/ ReloadFetch(2)
    \/ ReloadBuildRow(2)
    \/ ReloadSwap(2)

SpecBatch == Init /\ [][NextBatch]_vars

\* C4: when `bulk_enrolled` is published, every template counted in it is
\* committed in the store.
C4_BulkEventAfterCommit ==
    [][(Len(published') > Len(published)
          /\ published'[Len(published')].event = "bulk_enrolled")
        => CountedTids \subseteq StoredTemplateIds]_vars

\* the batch of node 1 has ended, its event was delivered and handled, every
\* template it enrolled is committed and nothing is left to write or reload
BatchSettled ==
    /\ s_pc = "done"
    /\ \E k \in 1..Len(published) : published[k].event = "bulk_enrolled"
    /\ \A n \in Nodes : nats_inbox[n] = <<>>
    /\ load_pc[2] = "idle"
    /\ rq = <<>> /\ drain_pc = "sleep"
    /\ CountedTids \subseteq StoredTemplateIds

\* C5: once node 1's enrollment is complete, its change event delivered and
\* nothing more is written, node 2's gallery holds every template node 1
\* enrolled, and matching such a template on node 2 gives its identity.
C5_OtherNodeConverges ==
    BatchSettled =>
        \A i \in CountedItems :
            /\ EntryIndex(entries[2], w_result[i].template_id) # 0
            /\ Match(w_tpl[i], Snapshot(entries[2]), MatchThreshold).matched_identity_id
                   = ItemIdentity(i)

(***************************************************************************)
(* The templates.changed subscription of one node (nats_service.py).       *)
(***************************************************************************)

\* close_pool at shutdown: `_pool = None`.  A node started without a
\* database URL is in the same state: init_pool was never called.
ClosePool(n) ==
    /\ LoopFree(n)
    /\ pool_open[n]
    /\ pool_open' = [pool_open EXCEPT ![n] = FALSE]
    /\ UNCHANGED <<load_pc, load_rows, new_entries, load_gen, load_timers,
                   load_fetched>>
    /\ UNCHANGED <<dbVars, galVars, busVars, mVars>>
    /\ UNCHANGED NotGallery

\* the list load_from_db builds from the rows it was given: one entry per
\* row that decodes, in row order
RECURSIVE BuildEntries(_)
BuildEntries(rows) ==
    IF rows = <<>>
       THEN <<>>
       ELSE (IF Decodable(Head(rows).blob) THEN <<EntryOfRow(Head(rows))>>
                                           ELSE <<>>)
            \o BuildEntries(Tail(rows))

\* Node 1 with its subscription: enrollments held in memory only, rows
\* and events of other nodes, the debounced reload, and the pool going away.
NextReload ==
    \/ \E iid \in Identities : GalleryEnroll(1, iid, EyeOf(iid))
    \/ \E iid \in Identities : OtherNodeEnroll(iid, PackCodes(EyeOf(iid)), {1})
    \/ OtherNodeEnroll(1, CorruptBlob, {1})
    \/ TemplatesChangedHandler(1)
    \/ DebounceFire(1)
    \/ ReloadFetch(1)
    \/ ReloadBuildRow(1)
    \/ ReloadSwap(1)
    \/ ClosePool(1)

SpecReload == Init /\ [][NextReload]_vars

\* The event loop runs a handler whose message has arrived, a sleep ends,
\* the query returns and the loop over the rows ends.
SpecReloadFair ==
    /\ SpecReload
    /\ WF_vars(TemplatesChangedHandler(1))
    /\ WF_vars(DebounceFire(1))
    /\ WF_vars(ReloadFetch(1))
    /\ WF_vars(ReloadBuildRow(1))
    /\ WF_vars(ReloadSwap(1))

\* a step of node n's message handler: it consumed the head of the inbox
Handled(n) == Len(nats_inbox'[n]) < Len(nats_inbox[n])

\* C16: a templates.changed event whose source is the receiving node starts
\* no debounce timer, cancels none and leaves the reload where it was; an
\* event from any other source starts a debounce timer.
C16_SelfEventsIgnored ==
    [][\A n \in Nodes :
          Handled(n) =>
              IF Head(nats_inbox[n]).node_id = n
                 THEN /\ load_timers'[n] = load_timers[n]
                      /\ load_gen'[n] = load_gen[n]
                      /\ load_pc'[n] = load_pc[n]
                      /\ load_rows'[n] = load_rows[n]
                      /\ entries'[n] = entries[n]
                 ELSE /\ load_gen'[n] = load_gen[n] + 1
                      /\ load_gen'[n] \in load_timers'[n]
                      /\ load_pc'[n] = "sleep"]_vars

\* node 1 handled an event of its own and an event of another node, and
\* created one debounce task
C16_Witness ==
    /\ nats_inbox[1] = <<>>
    /\ \E k \in 1..Len(published) : published[k].node_id = 1
    /\ \E k \in 1..Len(published) : published[k].node_id = OtherNode
    /\ load_gen[1] = Cardinality({k \in 1..Len(published) :
                                     published[k].node_id # 1})

\* C17: at most one debounce task sleeps at any time, and it is the one the
\* latest non-self event created (an event that arrives before the timer
\* fires cancels the pending task and starts a new one); so the reload of a
\* burst is started by the timer of the burst's last event, which has slept
\* the whole debounce interval since that event, and by no other; and once
\* a timer is pending a reload eventually completes.
C17_OneTimerOneReload ==
    /\ [](\A n \in Nodes : /\ Cardinality(load_timers[n]) <= 1
                           /\ load_timers[n] \subseteq {load_gen[n]}
                           /\ (load_pc[n] = "sleep" <=> load_timers[n] # {}))
    /\ [][\A n \in Nodes :
             (load_pc[n] = "sleep" /\ load_pc'[n] = "fetch") =>
                 /\ load_timers[n] = {load_gen[n]}
                 /\ load_timers'[n] = {}
                 /\ load_gen'[n] = load_gen[n]]_vars
    /\ (load_timers[1] # {}) ~> (load_pc[1] = "idle")

\* the second event of a burst arrived while the timer of the first was
\* pending: two tasks were created, only the second sleeps, and no reload
\* has put a row in the gallery
C17_Witness ==
    /\ load_gen[1] = 2
    /\ load_timers[1] = {2}
    /\ nats_inbox[1] = <<>>
    /\ Cardinality(db_templates) = 2
    /\ entries[1] = <<>>

DecodableRows(rows) == {r \in rows : Decodable(r.blob)}

\* C19: the list a reload swaps in is a function of the rows it fetched:
\* its entries are those of the decodable rows whatever the order of the
\* rows, so a gallery that already holds the result of a reload of these
\* rows holds the same set of entries afterwards; the rows fetched are the
\* rows of the store, and when the store was not written since, the
\* gallery's template ids are those of the store's decodable rows.
C19_ReloadIdempotent ==
    [][/\ (pool_open[1] /\ load_pc[1] = "fetch" /\ load_pc'[1] = "build") =>
              Range(load_fetched'[1]) = db_templates
       /\ (load_pc[1] = "build" /\ load_pc'[1] = "idle") =>
              /\ entries'[1] = BuildEntries(load_fetched[1])
              /\ \A o \in RowOrders(Range(load_fetched[1])) :
                     Range(BuildEntries(o)) = Range(entries'[1])
              /\ Range(entries[1]) = Range(BuildEntries(load_fetched[1])) =>
                     Range(entries'[1]) = Range(entries[1])
              /\ Range(load_fetched[1]) = db_templates =>
                     {e.tid : e \in Range(entries'[1])} =
                         {r.tid : r \in DecodableRows(db_templates)}]_vars

\* a second reload of the same two rows is about to swap: the gallery holds
\* the result of the earlier reload, built from the rows in the other order
C19_Witness ==
    /\ load_pc[1] = "build"
    /\ load_rows[1] = <<>>
    /\ Len(new_entries[1]) = 2
    /\ Range(load_fetched[1]) = db_templates
    /\ Range(entries[1]) = Range(new_entries[1])
    /\ entries[1] # new_entries[1]

(***************************************************************************)
(* Queries in the three matching modes                                     *)
(***************************************************************************)
\* gallery.match and gallery.check_duplicate (the two thresholds) against a
\* gallery that enrolls and removes, in each mode.
NextMatch ==
    \/ \E iid \in Identities : GalleryEnroll(1, iid, EyeOf(iid))
    \/ \E iid \in Identities : GalleryRemove(1, iid)
    \/ \E m \in Matchers, probe \in Templates :
         \E threshold \in {MatchThreshold, DedupThreshold} :
             MatchSnapshot(m, 1, probe, threshold)
    \/ \E m \in Matchers : MatchScan(m)

SpecMatch == InitAnyMode /\ [][NextMatch]_vars

NotCalls == <<mlVars, rqVars, dbVars, galVars, busVars, loadVars, mVars,
              enrVars, poolVars, streamVars>>
NotScan == <<NotCalls, kc, lk, codec, boot, gd>>
NotKeyClient == <<NotCalls, scan, lk, codec, boot, gd>>
NotLock == <<NotCalls, scan, kc, codec, boot, gd>>
NotCodec == <<NotCalls, scan, kc, lk, boot, gd>>
NotBoot == <<NotCalls, scan, kc, lk, codec, gd>>

MaxSnap == 2
    \* entries of a snapshot

\* what can be wrong with a gallery entry: codes matcher.run raises on;
\* iris_popcount empty, as load_from_db leaves it (the SELECT of
\* load_all_templates has no popcount column)
Faults == {"none", "malformed", "no_popcount"}

ScanEntries == [iid : Identities, tpl : Templates, fault : Faults]

Snapshots == UNION {[1..k -> ScanEntries] : k \in 1..MaxSnap}

\* scoring one entry raises: matcher.run on malformed codes in _match;
\* he_inner_product on malformed ciphertexts or `entry.iris_popcount[i]`
\* on an empty list in he_match_1n_local
ScoreRaises(mode, e) ==
    IF mode = "off" THEN e.fault = "malformed" ELSE e.fault # "none"

\* the loop body is inside `try: ... except Exception: continue`: in
\* _match only
CaughtPerEntry(mode) == mode = "off"

\* The loop over the snapshot from entry i on: best is [raised, distance,
\* entry], entry the index of best_entry (0 for None); raised when an
\* exception left the loop.
RECURSIVE ScanLoop(_, _, _, _, _)
ScanLoop(mode, probe, snap, i, best) ==
    IF i > Len(snap) THEN best
    ELSE IF ScoreRaises(mode, snap[i])
       THEN IF CaughtPerEntry(mode)
               THEN ScanLoop(mode, probe, snap, i + 1, best)
               ELSE [best EXCEPT !.raised = TRUE]
       ELSE ScanLoop(mode, probe, snap, i + 1,
                     IF Better(Dist(probe, snap[i].tpl), best.distance)
                        THEN [raised |-> FALSE,
                              distance |-> Dist(probe, snap[i].tpl),
                              entry |-> i]
                        ELSE best)

\* `best_entry.identity_id if is_match and best_entry else None`, best_entry
\* given by its index in the snapshot (0 for None)
BestIdentityAlways(is_match, best_entry, snap) ==
    IF best_entry # 0 THEN snap[best_entry].iid ELSE None
MatchedIdentity(is_match, best_entry, snap) ==
    IF is_match /\ best_entry # 0 THEN snap[best_entry].iid ELSE None

\* _match / he_match_1n_local on a snapshot: the MatchResult, or raised
Query(mode, probe, snap, threshold) ==
    IF snap = <<>> THEN [raised |-> FALSE, result |-> NoResult]
    ELSE LET best == ScanLoop(mode, probe, snap, 1,
                              [raised |-> FALSE, distance |-> 100, entry |-> 0])
             is_match == best.distance < threshold
         IN IF best.raised
               THEN [raised |-> TRUE, result |-> NoResult]
               ELSE [raised |-> FALSE,
                     result |->
                        [hamming_distance |-> best.distance,
                         is_match |-> is_match,
                         matched_identity_id |->
                            MatchedIdentity(is_match, best.entry, snap)]]

\* a query starts on a snapshot, in plaintext mode or in HE mode with the
\* secret key
ScanCall(mode, probe, snap, threshold) ==
    /\ scan.pc = "idle"
    /\ scan' = [pc |-> "called", mode |-> mode, probe |-> probe, snap |-> snap,
                threshold |-> threshold, raised |-> FALSE, result |-> NoResult]
    /\ UNCHANGED NotScan

\* the query returns or raises
ScanReturn ==
    /\ scan.pc = "called"
    /\ LET q == Query(scan.mode, scan.probe, scan.snap, scan.threshold)
       IN scan' = [scan EXCEPT !.pc = "done", !.raised = q.raised,
                               !.result = q.result]
    /\ UNCHANGED NotScan

\* the `best_distance = 1.0` a scan starts from, in hundredths
UnitDistance == 100

\* settings.match_threshold and settings.dedup_threshold are floats of the
\* environment with no validation: a value above 1.0 is accepted
OverUnitThreshold == 150

NextScan ==
    \/ /\ scan.pc = "idle"
       /\ \E mode \in {"off", "local"}, probe \in Templates, snap \in Snapshots :
            \E threshold \in {MatchThreshold, DedupThreshold, OverUnitThreshold} :
                ScanCall(mode, probe, snap, threshold)
    \/ ScanReturn

SpecScan == Init /\ [][NextScan]_vars

\* every entry of the snapshot can be scored
AllSound(snap) == \A i \in 1..Len(snap) : snap[i].fault = "none"

\* the least per-entry distance of a snapshot
MinDist(probe, snap) ==
    LET ds == {Dist(probe, snap[i].tpl) : i \in 1..Len(snap)}
    IN CHOOSE d \in ds : \A e \in ds : d <= e

\* C21: for a non-empty snapshot whose entries can all be scored, the
\* query reports the minimum of the per-entry distances; it is a match
\* exactly when the minimum is below the threshold, the identity is then
\* that of the first entry in snapshot order at the minimum, and otherwise
\* the result carries the minimum and no identity.
C21_BestOfSnapshot ==
    (scan.pc = "done" /\ AllSound(scan.snap)) =>
        LET d == MinDist(scan.probe, scan.snap)
            first == CHOOSE i \in 1..Len(scan.snap) :
                        /\ Dist(scan.probe, scan.snap[i].tpl) = d
                        /\ \A j \in 1..(i - 1) :
                              Dist(scan.probe, scan.snap[j].tpl) # d
        IN /\ ~scan.raised
           /\ scan.result.hamming_distance = d
           /\ scan.result.is_match = (d < scan.threshold)
           /\ scan.result.matched_identity_id =
                 (IF d < scan.threshold THEN scan.snap[first].iid ELSE None)
           /\ scan.result = Match(scan.probe, scan.snap, scan.threshold)

\* a query returned over two entries of different identities at the same
\* distance, below the threshold
C21_Witness ==
    /\ scan.pc = "done"
    /\ AllSound(scan.snap)
    /\ Len(scan.snap) = 2
    /\ scan.snap[1].iid # scan.snap[2].iid
    /\ Dist(scan.probe, scan.snap[1].tpl) = Dist(scan.probe, scan.snap[2].tpl)
    /\ scan.result.is_match

\* the entries of a snapshot that can be scored in a mode
Scorable(mode, snap) == SelectSeq(snap, LAMBDA e : ~ScoreRaises(mode, e))

\* C22: a query over a snapshot with entries that cannot be scored does not
\* raise and returns the result of the query over the other entries.
C22_FailedEntrySkipped ==
    scan.pc = "done" =>
        /\ ~scan.raised
        /\ scan.result = Match(scan.probe, Scorable(scan.mode, scan.snap),
                               scan.threshold)

\* the entries of node 1's gallery within the dedup threshold of a probe
Duplicates(tpl) ==
    {i \in 1..Len(entries[1]) : Dist(tpl, entries[1][i].tpl) < DedupThreshold}

\* C23: when the probe of an enrollment is within dedup_threshold of an
\* enrolled template, the duplicate check ends the request with
\* is_duplicate, the identity of such an entry and no template id; the
\* gallery, the store, the bus and the match-log queue stay as they were,
\* and a request that returned a duplicate has had no effect at all.
C23_DuplicateHasNoEffect ==
    /\ [][\A r \in Requests :
             (e_pc[r] = "dedup" /\ e_pc'[r] # "dedup"
                /\ Duplicates(e_req[r].tpl) # {}) =>
                 /\ e_pc'[r] = "returned"
                 /\ e_response'[r].is_duplicate
                 /\ e_response'[r].template_id = None
                 /\ ~e_response'[r].error
                 /\ \E i \in Duplicates(e_req[r].tpl) :
                       e_response'[r].duplicate_identity_id = entries[1][i].iid
                 /\ UNCHANGED <<galVars, dbVars, busVars, mlVars, rqVars>>]_vars
    /\ [](\A r \in Requests :
             (e_pc[r] = "returned" /\ e_response[r].is_duplicate) =>
                 e_trace[r] = <<>>)

\* the second request, for identity 2, returned a duplicate of identity 1
C23_Witness ==
    /\ e_pc[2] = "returned"
    /\ e_req[2].iid = 2
    /\ e_response[2].is_duplicate
    /\ e_response[2].duplicate_identity_id = 1
    /\ e_response[2].template_id = None
    /\ e_trace[2] = <<>>
    /\ \E i \in 1..Len(entries[1]) : entries[1][i].iid = 1

(***************************************************************************)
(* key_client.request_decrypt_batch: the requests to the key-service       *)
(***************************************************************************)
MaxCtsPerRequest == 3
    \* _MAX_CTS_PER_REQUEST (16 in the program)
MaxEntryCts == 4
    \* ciphertexts of one entry: 1..MaxEntryCts
MaxBatch == 2
    \* entries of a batch

\* an entry of the batch: its identity, the template behind its
\* ciphertexts and the number of enc_inner_products it carries
KcEntries ==
    {[iid |-> i, tpl |-> EyeOf(i), cts |-> c] :
        i \in Identities, c \in 1..MaxEntryCts}

Batches == UNION {[1..k -> KcEntries] : k \in 1..MaxBatch}

\* `sum(len(e["enc_inner_products_b64"]) for e in ...)` over the entries
\* whose indices are in the sequence idx
RECURSIVE TotalCts(_, _)
TotalCts(batch, idx) ==
    IF idx = <<>> THEN 0
    ELSE batch[Head(idx)].cts + TotalCts(batch, Tail(idx))

\* The chunking loop from entry i on: chunk holds the indices collected,
\* out the chunks already sent; the last chunk is sent after the loop.
RECURSIVE ChunkLoop(_, _, _, _, _)
ChunkLoop(batch, i, chunk, chunk_cts, out) ==
    IF i > Len(batch)
       THEN IF chunk # <<>> THEN Append(out, chunk) ELSE out
       ELSE IF chunk_cts + batch[i].cts > MaxCtsPerRequest /\ chunk # <<>>
               THEN ChunkLoop(batch, i + 1, <<i>>, batch[i].cts,
                              Append(out, chunk))
               ELSE ChunkLoop(batch, i + 1, Append(chunk, i),
                              chunk_cts + batch[i].cts, out)

\* `if total_cts <= _MAX_CTS_PER_REQUEST`
Chunked(batch) ==
    TotalCts(batch, [i \in 1..Len(batch) |-> i]) > MaxCtsPerRequest

\* the requests of a batch, each the indices of its batch, in the order
\* they are sent
RequestsOf(batch) ==
    IF Chunked(batch)
       THEN ChunkLoop(batch, 1, <<>>, 0, <<>>)
       ELSE <<[i \in 1..Len(batch) |-> i]>>

\* how a request ends: the key-service's summary; an exception of
\* nc.request or json.loads (timeout, transport error, unparsable reply);
\* a reply with an "error" member
Outcomes == {"ok", "raise", "error_reply"}

\* _send_decrypt_request: the MatchResult for an outcome; reply is the
\* summary in the reply, or the one the key-service would have given
TrustReply(outcome, reply) == reply
ReplyResult(outcome, reply) == IF outcome = "ok" THEN reply ELSE NoResult

\* request_decrypt_batch is called: without a connected bus it returns
\* the no-match result at once.
KcCall(probe, batch, connected) ==
    /\ kc.pc = "idle"
    /\ kc' = [pc |-> IF connected THEN "sending" ELSE "done",
              probe |-> probe, entries |-> batch, connected |-> connected,
              chunked |-> Chunked(batch),
              chunks |-> IF connected THEN RequestsOf(batch) ELSE <<>>,
              sent |-> <<>>, best |-> NoResult]
    /\ UNCHANGED NotKeyClient

\* one _send_decrypt_request and what request_decrypt_batch does with its
\* result: returned as it is, or kept when its distance is lower
KcSend(outcome) ==
    /\ kc.pc = "sending"
    /\ LET chunk == Head(kc.chunks)
           reply == Match(kc.probe, [k \in 1..Len(chunk) |-> kc.entries[chunk[k]]],
                          MatchThreshold)
           result == ReplyResult(outcome, reply)
       IN kc' = [kc EXCEPT
                   !.chunks = Tail(@),
                   !.pc = IF Tail(kc.chunks) = <<>> THEN "done" ELSE "sending",
                   !.sent = Append(@, [chunk |-> chunk,
                                       cts |-> TotalCts(kc.entries, chunk),
                                       outcome |-> outcome,
                                       result |-> result]),
                   !.best = IF ~kc.chunked THEN result
                            ELSE IF result.hamming_distance < @.hamming_distance
                                    THEN result ELSE @]
    /\ UNCHANGED NotKeyClient

NextKeyClient ==
    \/ /\ kc.pc = "idle"
       /\ \E probe \in Templates, batch \in Batches, connected \in BOOLEAN :
             KcCall(probe, batch, connected)
    \/ \E outcome \in Outcomes : KcSend(outcome)

SpecKeyClient == Init /\ [][NextKeyClient]_vars

\* C24: a decrypt request that does not complete (exception or error
\* reply) results in distance 1.0, no match and no identity; without a
\* connected bus the call returns that result and sends nothing; a call
\* none of whose requests completed never reports a match.
C24_DecryptFailureIsNoMatch ==
    /\ \A k \in 1..Len(kc.sent) :
          kc.sent[k].outcome # "ok" =>
              /\ kc.sent[k].result.hamming_distance = 100
              /\ ~kc.sent[k].result.is_match
              /\ kc.sent[k].result.matched_identity_id = None
    /\ (kc.pc # "idle" /\ ~kc.connected) =>
          /\ kc.pc = "done"
          /\ kc.sent = <<>>
    /\ (kc.pc = "done" /\ \A k \in 1..Len(kc.sent) : kc.sent[k].outcome # "ok") =>
          /\ kc.best.hamming_distance = 100
          /\ ~kc.best.is_match
          /\ kc.best.matched_identity_id = None

\* a batch with an entry of the probe's own template went out in two
\* requests; one raised, the other got an error reply
C24_Witness ==
    /\ kc.pc = "done"
    /\ Len(kc.sent) = 2
    /\ kc.sent[1].outcome = "raise"
    /\ kc.sent[2].outcome = "error_reply"
    /\ \E i \in 1..Len(kc.entries) : kc.entries[i].tpl = kc.probe
    /\ ~kc.best.is_match

\* the indices of the entries of the requests sent, in the order sent
RECURSIVE SentOrder(_)
SentOrder(sent) ==
    IF sent = <<>> THEN <<>> ELSE Head(sent).chunk \o SentOrder(Tail(sent))

\* C25: every request sent carries fewer than MAX_CTS_PER_REQUEST
\* ciphertexts, and the requests of a finished call hold every entry of
\* the batch once, in the order of the batch.
C25_RequestsBelowLimit ==
    /\ \A k \in 1..Len(kc.sent) : kc.sent[k].cts < MaxCtsPerRequest
    /\ (kc.pc = "done" /\ kc.connected) =>
          SentOrder(kc.sent) = [i \in 1..Len(kc.entries) |-> i]

(***************************************************************************)
(* gallery._lock: what each thread or coroutine does, step by step, with   *)
(* the lock taken and given back by `with self._lock:`                     *)
(***************************************************************************)
\* the steps of _match: the snapshot under the lock, the loop of
\* matcher.run outside
MatchUnderLock == <<"acquire", "copy", "compute", "release">>
MatchSteps == <<"acquire", "copy", "release", "compute">>

\* run_enroll_async: check_duplicate (snapshot, scoring) and the name
\* lookup of a duplicate, HE encryption, gallery.enroll's append, the
\* lookup by template id, then ensure_identity, persist_template and
\* nc.publish
EnrollSteps ==
    <<"acquire", "copy", "release", "compute",
      "acquire", "scan", "release",
      "compute",
      "acquire", "append", "release",
      "acquire", "scan", "release",
      "io", "io", "io">>

\* load_from_db: load_all_templates, unpack_codes of the rows, the swap
ReloadSteps == <<"io", "compute", "acquire", "swap", "release">>

\* gallery_delete: remove_identity, then delete_identity and nc.publish
DeleteSteps == <<"acquire", "filter", "release", "io", "io">>

\* run_analyze and log_match: gallery.match, _lookup_template_id, the
\* put on the match-log queue
LogMatchSteps ==
    <<"acquire", "copy", "release", "compute",
      "acquire", "scan", "release", "io">>

\* an item of a batch: check_duplicate and gallery.enroll in
\* _process_one, the lookup of _push_persistence, then the Redis push or
\* the direct write
BatchSteps ==
    <<"acquire", "copy", "release", "compute",
      "acquire", "append", "release",
      "acquire", "scan", "release", "io">>

\* gallery_list without a database, and gallery.size
ListingSteps == <<"acquire", "copy", "release", "compute">>

StepsOf(t) ==
    CASE t = "match" -> MatchSteps
      [] t = "batch" -> BatchSteps
      [] t = "list" -> ListingSteps
      [] t = "enroll" -> EnrollSteps
      [] t = "reload" -> ReloadSteps
      [] t = "delete" -> DeleteSteps
      [] t = "log_match" -> LogMatchSteps

\* the step thread t is at
AtStep(t) == StepsOf(t)[lk.pc[t]]

\* what is done to the entry list
ListSteps == {"copy", "scan", "append", "filter", "swap"}

\* thread t does its step and starts over after the last; `with` blocks
\* until the lock is free
LockStep(t) ==
    /\ AtStep(t) = "acquire" => lk.holder = ""
    /\ lk' = [holder |-> CASE AtStep(t) = "acquire" -> t
                           [] AtStep(t) = "release" -> ""
                           [] OTHER -> lk.holder,
              pc |-> [lk.pc EXCEPT ![t] = IF @ = Len(StepsOf(t)) THEN 1
                                          ELSE @ + 1]]
    /\ UNCHANGED NotLock

NextLock == \E t \in Threads : LockStep(t)

SpecLock == Init /\ [][NextLock]_vars

\* C26: a thread that holds the gallery lock is at a step on the entry
\* list (copy, scan, append, filter, swap) or about to give the lock back,
\* never at store, bus or queue I/O nor at a distance computation; the
\* list is touched only under the lock and the lock has one holder.
C26_LockOnlyAroundList ==
    /\ \A t \in Threads :
          /\ lk.holder = t => AtStep(t) \in ListSteps \cup {"release"}
          /\ AtStep(t) \in {"io", "compute"} => lk.holder # t
          /\ AtStep(t) \in ListSteps => lk.holder = t
    /\ lk.holder \in Threads \cup {""}

\* a query scores its snapshot while the enrollment holds the lock for its
\* append and the reload waits for its query
C26_Witness ==
    /\ AtStep("match") = "compute"
    /\ lk.holder = "enroll"
    /\ AtStep("enroll") = "append"
    /\ AtStep("reload") = "io"

(***************************************************************************)
(* pack_codes / unpack_codes and crypto.encrypt / crypto.decrypt, on       *)
(* lists of arrays.  A blob is [prefix, key, payload]: "PK" an NPZ archive *)
(* whose members arr_0, arr_1, ... are payload; "EYED1" such an archive    *)
(* encrypted under key; "HEv1" serialized ciphertexts.  Key 0 is no key.   *)
(***************************************************************************)
MaxCodes == 11
    \* arrays in a list of codes: 0..MaxCodes
Arrays == {0, 1}
    \* contents of an array

CodeLists == UNION {[1..k -> Arrays] : k \in 0..MaxCodes}

\* the decimal digits of k: member k of the archive is named arr_<k>
RECURSIVE Digits(_)
Digits(k) == IF k < 10 THEN <<k>> ELSE Append(Digits(k \div 10), k % 10)

\* string order of two member names, by their digits
LexLess(a, b) ==
    \E i \in 1..Len(b) :
        /\ Len(a) >= i - 1
        /\ \A j \in 1..(i - 1) : a[j] = b[j]
        /\ IF Len(a) = i - 1 THEN TRUE ELSE a[i] < b[i]

\* `sorted(npz.files)` of an archive of n members: the member numbers in
\* the order of their names
SortedFiles(n) ==
    [j \in 1..n |->
        CHOOSE k \in 0..(n - 1) :
            Cardinality({m \in 0..(n - 1) : LexLess(Digits(m), Digits(k))}) = j - 1]

\* np.savez_compressed(buf, *codes)
Savez(codes) == [prefix |-> "PK", key |-> 0, payload |-> codes]

\* crypto.encrypt with the node's key
Encrypt(key, plaintext) ==
    IF key = 0 THEN plaintext
    ELSE [prefix |-> "EYED1", key |-> key, payload |-> plaintext.payload]

pack_codes(key, codes) == Encrypt(key, Savez(codes))

\* crypto.decrypt with the node's key: the bytes, or the exception
Decrypt(key, data) ==
    IF data.prefix # "EYED1" THEN [error |-> "", data |-> data]
    ELSE IF key = 0 THEN [error |-> "missing_key", data |-> NoBlob]
    ELSE IF key # data.key THEN [error |-> "invalid_tag", data |-> NoBlob]
    ELSE [error |-> "", data |-> Savez(data.payload)]

\* `npz = np.load(buf); return [npz[k] for k in sorted(npz.files)]`
unpack_codes(key, data) ==
    LET d == Decrypt(key, data)
    IN IF d.error # "" THEN [error |-> d.error, arrays |-> <<>>]
       ELSE IF d.data.prefix # "PK" THEN [error |-> "not_npz", arrays |-> <<>>]
       ELSE [error |-> "",
             arrays |-> [j \in 1..Len(d.data.payload) |->
                            d.data.payload[SortedFiles(Len(d.data.payload))[j] + 1]]]

\* the blobs another writer can have left in the store
StoredBlobs ==
    [prefix : {"PK", "EYED1", "HEv1"}, key : {1}, payload : [1..2 -> Arrays]]

\* pack_codes(codes) on a node with or without a key
CodecPack(key, codes) ==
    /\ codec.pc = "idle"
    /\ codec' = [pc |-> "packed", key |-> key, codes |-> codes,
                 blob |-> pack_codes(key, codes), out |-> NoOutput]
    /\ UNCHANGED NotCodec

\* a blob read from the store on a node with or without a key
CodecRead(key, blob) ==
    /\ codec.pc = "idle"
    /\ codec' = [pc |-> "read", key |-> key, codes |-> <<>>,
                 blob |-> blob, out |-> NoOutput]
    /\ UNCHANGED NotCodec

\* unpack_codes(blob) returns or raises
CodecUnpack ==
    /\ codec.pc \in {"packed", "read"}
    /\ codec' = [codec EXCEPT !.pc = IF @ = "packed" THEN "unpacked" ELSE "done",
                              !.out = unpack_codes(codec.key, codec.blob)]
    /\ UNCHANGED NotCodec

NextCodec ==
    \/ /\ codec.pc = "idle"
       /\ \E key \in {0, 1}, codes \in CodeLists : CodecPack(key, codes)
    \/ /\ codec.pc = "idle"
       /\ \E key \in {0, 1, 2}, blob \in StoredBlobs : CodecRead(key, blob)
    \/ CodecUnpack

SpecCodec == Init /\ [][NextCodec]_vars

\* C27: unpack_codes(pack_codes(codes)) with the same key or with no key
\* returns the arrays of codes, as many, in the same order.
C27_PackUnpackRoundTrip ==
    codec.pc = "unpacked" =>
        /\ codec.out.error = ""
        /\ codec.out.arrays = codec.codes

\* C28: unpack_codes by prefix: an EYED1 blob of the node's key gives the
\* arrays of the archive inside, an NPZ blob its arrays, an HEv1 blob the
\* ciphertexts it holds, and an EYED1 blob on a node without a key the
\* missing-key error.
C28_UnpackDispatch ==
    codec.pc = "done" =>
        CASE codec.blob.prefix = "PK" ->
                 codec.out = [error |-> "", arrays |-> codec.blob.payload]
          [] codec.blob.prefix = "EYED1" /\ codec.key = 0 ->
                 codec.out.error = "missing_key"
          [] codec.blob.prefix = "EYED1" /\ codec.key = codec.blob.key ->
                 codec.out = [error |-> "", arrays |-> codec.blob.payload]
          [] codec.blob.prefix = "EYED1" /\ codec.key \notin {0, codec.blob.key} ->
                 codec.out.error = "invalid_tag"
          [] codec.blob.prefix = "HEv1" ->
                 codec.out = [error |-> "", arrays |-> codec.blob.payload]

(***************************************************************************)
(* Startup with EYED_ENCRYPTION_KEY (main.py lifespan, crypto._load_key)   *)
(***************************************************************************)
MaxRows == 3
    \* template rows in the store at startup
MaxServed == 3
    \* enrollments served

\* EYED_ENCRYPTION_KEY: not set, 32 bytes, or another length
KeyEnvs == {"unset", "valid", "short"}

\* _load_key: the key (0 for None), or the ValueError for a key that is
\* not 32 bytes
LoadKey(env) ==
    CASE env = "unset" -> [error |-> "", key |-> 0]
      [] env = "valid" -> [error |-> "", key |-> 1]
      [] env = "short" -> [error |-> "key_length", key |-> 0]

\* crypto.decrypt in the environment: the key is loaded only for a blob
\* with the EYED1 prefix
DecryptIn(env, data) ==
    IF data.prefix # "EYED1" THEN [error |-> "", data |-> data]
    ELSE IF LoadKey(env).error # "" THEN [error |-> LoadKey(env).error,
                                          data |-> NoBlob]
    ELSE Decrypt(LoadKey(env).key, data)

\* crypto.encrypt in the environment: the key is loaded first
EncryptIn(env, plaintext) ==
    IF LoadKey(env).error # "" THEN [error |-> LoadKey(env).error,
                                     data |-> NoBlob]
    ELSE [error |-> "", data |-> Encrypt(LoadKey(env).key, plaintext)]

\* the rows of the store when the node starts: plain and encrypted blobs
StartRows ==
    UNION {[1..k -> {b \in StoredBlobs : b.prefix # "HEv1" /\ b.payload = <<0, 1>>}] :
              k \in 0..MaxRows}

\* the process starts: lifespan loads the pipeline and the pool and calls
\* init_pool; nothing reads the key
BootStart(env, rows) ==
    /\ boot.pc = "off"
    /\ boot' = [pc |-> "loading", env |-> env, rows |-> rows, loaded |-> 0,
                served |-> 0, raised |-> 0]
    /\ UNCHANGED NotBoot

\* load_from_db at startup, one row: unpack_codes; any exception is logged
\* and the row skipped
BootLoadRow ==
    /\ boot.pc = "loading"
    /\ boot.rows # <<>>
    /\ boot' = [boot EXCEPT
                  !.rows = Tail(@),
                  !.loaded = IF DecryptIn(boot.env, Head(boot.rows)).error = ""
                                THEN @ + 1 ELSE @]
    /\ UNCHANGED NotBoot

\* the rest of lifespan up to `yield`: Redis, the drain writer, NATS; the
\* node serves requests
BootServe ==
    /\ boot.pc = "loading"
    /\ boot.rows = <<>>
    /\ boot' = [boot EXCEPT !.pc = "serving"]
    /\ UNCHANGED NotBoot

\* an enrollment is served: pack_codes of run_enroll_async returns or
\* raises
ServeEnroll ==
    /\ boot.pc = "serving"
    /\ boot.served < MaxServed
    /\ boot' = [boot EXCEPT
                  !.served = @ + 1,
                  !.raised = IF EncryptIn(boot.env, Savez(<<0, 1>>)).error # ""
                                THEN @ + 1 ELSE @]
    /\ UNCHANGED NotBoot

NextBoot ==
    \/ /\ boot.pc = "off"
       /\ \E env \in KeyEnvs, rows \in StartRows : BootStart(env, rows)
    \/ BootLoadRow
    \/ BootServe
    \/ ServeEnroll

SpecBoot == Init /\ [][NextBoot]_vars

\* C29: a node whose EYED_ENCRYPTION_KEY is not 32 bytes never serves.
C29_InvalidKeyFailsStartup ==
    boot.env = "short" => boot.pc # "serving"

\* the number of drops MatchLogWriter can report: log does nothing in
\* `except asyncio.QueueFull: pass`, and the writer has no field but
\* _queue and _task
DropCounter == 0

\* C30: the drop counter equals the number of log calls that found the
\* queue full.
C30_DropsCounted ==
    DropCounter = Cardinality(ml_dropped)

(***************************************************************************)
(* The batches of the match-log drain loop, checked under SpecLog.         *)
(***************************************************************************)

\* C31 as stated: the batch the drain loop takes when queue.get() returns
\* is the entry it waited for followed by the entries that were ready
\* behind it, BatchMax of them at most, in queue order, and these entries
\* leave the queue.
C31_BatchIsHeadPlusBatchMax ==
    [][(ml_task = "get" /\ ml_task' = "insert") =>
          LET n == Min(Len(ml_queue), 1 + BatchMax) IN
            /\ ml_entries' = SubSeq(ml_queue, 1, n)
            /\ ml_queue' = SubSeq(ml_queue, n + 1, Len(ml_queue))]_vars

\* C31: the batch the drain loop takes when queue.get() returns is the
\* entry it waited for followed by the entries that were ready behind it,
\* BatchMax entries in all at most, in queue order; these entries leave the
\* queue, and no entry is in two batches, or in a batch and still queued.
C31_BatchIsPrefixOfBatchMax ==
    /\ [][(ml_task = "get" /\ ml_task' = "insert") =>
            LET n == Min(Len(ml_queue), BatchMax) IN
              /\ n >= 1
              /\ ml_entries' = SubSeq(ml_queue, 1, n)
              /\ ml_queue' = SubSeq(ml_queue, n + 1, Len(ml_queue))]_vars
    /\ [](\A e \in 1..MaxLogCalls :
            Occurrences(ml_issued, e)
              + (IF e \in Range(ml_entries) THEN 1 ELSE 0)
              + (IF e \in Range(ml_queue) THEN 1 ELSE 0) <= 1)

\* the drain loop took a full batch and left an entry that was ready
C31_Witness ==
    /\ ml_task = "insert"
    /\ Len(ml_entries) = BatchMax
    /\ ml_queue # <<>>
    /\ ml_issued # <<>>

(***************************************************************************)
(* DELETE /gallery/delete/{identity_id} on node 1 (routes/gallery.py),     *)
(* with enrollments and reloads of the node's gallery.                     *)
(***************************************************************************)
MaxDeletes == 1
    \* calls of gallery_delete explored

NotDelete == <<mlVars, rqVars, mVars, enrVars, poolVars, streamVars,
              scan, kc, lk, codec, boot>>

DeletedMsg(node, iid) ==
    [node_id |-> node, event |-> "deleted", template_id |-> None,
     identity_id |-> iid, count |-> 0]

\* gallery_delete up to its first await: gallery.remove_identity, and the
\* call of delete_identity.
DeleteRemove(iid) ==
    /\ LoopFree(1)
    /\ gd.pc \in {"idle", "returned", "failed"}
    /\ gd.calls < MaxDeletes
    /\ SetEntries(1, RemoveIdentity(entries[1], iid))
    /\ gd' = [pc |-> "store", iid |-> iid,
              removed |-> RemovedCount(entries[1], iid),
              since |-> next_tid, calls |-> gd.calls + 1]
    /\ UNCHANGED <<next_tid, dbVars, busVars, loadVars>>
    /\ UNCHANGED NotDelete

\* delete_identity: nothing without a pool; else the DELETE of the identity
\* row, which takes its template rows with it, or an error of the store,
\* which ends the handler.
DeleteStore(ok) ==
    /\ gd.pc = "store"
    /\ IF pool_open[1] /\ ok
          THEN /\ db_identities' = db_identities \ {gd.iid}
               /\ db_templates' = {t \in db_templates : t.iid # gd.iid}
          ELSE UNCHANGED dbVars
    /\ gd' = [gd EXCEPT !.pc = IF pool_open[1] /\ ~ok THEN "failed"
                                                      ELSE "publish"]
    /\ UNCHANGED <<galVars, busVars, loadVars>>
    /\ UNCHANGED NotDelete

\* `if removed > 0:` publish `deleted` when connected; the handler returns.
DeletePublish ==
    /\ gd.pc = "publish"
    /\ LoopFree(1)
    /\ IF gd.removed > 0 /\ nats_connected
          THEN Publish(DeletedMsg(1, gd.iid), {1})
          ELSE UNCHANGED busVars
    /\ gd' = [gd EXCEPT !.pc = "returned"]
    /\ UNCHANGED <<dbVars, galVars, loadVars>>
    /\ UNCHANGED NotDelete

NextDelete ==
    \/ \E iid \in Identities : GalleryEnroll(1, iid, EyeOf(iid))
    \/ \E iid \in Identities : OtherNodeEnroll(iid, PackCodes(EyeOf(iid)), {1})
    \/ TemplatesChangedHandler(1)
    \/ DebounceFire(1)
    \/ ReloadFetch(1)
    \/ ReloadBuildRow(1)
    \/ ReloadSwap(1)
    \/ \E iid \in Identities : DeleteRemove(iid)
    \/ \E ok \in BOOLEAN : DeleteStore(ok)
    \/ DeletePublish

SpecDelete == Init /\ [][NextDelete]_vars

\* C33: in the gallery of a node, template ids are pairwise distinct; a
\* template id keeps the identity it has, from one state to the next and
\* between the gallery and the store; a step that hands out a template id
\* and changes the gallery appends exactly one entry, with that id, at the
\* end; and remove_identity(id) leaves exactly the entries of the other
\* identities, in their order, and returns the number of entries of id.
C33_GalleryListOperations ==
    /\ [](\A i, j \in 1..Len(entries[1]) :
            entries[1][i].tid = entries[1][j].tid => i = j)
    /\ [](\A i \in 1..Len(entries[1]) : \A t \in db_templates :
            entries[1][i].tid = t.tid => entries[1][i].iid = t.iid)
    /\ [][\A i \in 1..Len(entries[1]) : \A j \in 1..Len(entries'[1]) :
            entries[1][i].tid = entries'[1][j].tid
                => entries[1][i].iid = entries'[1][j].iid]_vars
    /\ [][(next_tid' # next_tid /\ entries' # entries) =>
            /\ Len(entries'[1]) = Len(entries[1]) + 1
            /\ SubSeq(entries'[1], 1, Len(entries[1])) = entries[1]
            /\ entries'[1][Len(entries'[1])].tid = next_tid]_vars
    /\ [][(gd'.calls # gd.calls) =>
            /\ entries'[1] = SelectSeq(entries[1], LAMBDA e : e.iid # gd'.iid)
            /\ gd'.removed = Cardinality({i \in 1..Len(entries[1]) :
                                            entries[1][i].iid = gd'.iid})]_vars

\* after a reload, remove_identity has removed one of two entries
C33_Witness ==
    /\ gd.pc = "store"
    /\ gd.removed = 1
    /\ Len(entries[1]) = 1
    /\ entries[1][1].iid # gd.iid
    /\ load_gen[1] > 0

(***************************************************************************)
(* Deduplication among concurrent batch workers, checked under SpecPool.   *)
(***************************************************************************)

\* C34: of the work items of a batch that present one template, at most one
\* is enrolled (gets a template id), and the gallery holds at most one
\* entry of a template.
C34_DedupUnderConcurrency ==
    /\ \A i, j \in Items :
          (/\ w_result[i].template_id # None
           /\ w_result[j].template_id # None
           /\ w_tpl[i] = w_tpl[j]) => i = j
    /\ \A i, j \in 1..Len(entries[1]) :
          entries[1][i].tpl = entries[1][j].tpl => i = j

(***************************************************************************)
(* Enrolled templates and reloads, checked under SpecEnroll (no identity   *)
(* is removed there).                                                      *)
(***************************************************************************)

\* C35: a template id that gallery.enroll has returned to an enrollment of
\* node 1 is the id of an entry of node 1's gallery.
C35_EnrolledSurvivesReload ==
    \A r \in Requests :
        e_response[r].template_id # None =>
            \E k \in 1..Len(entries[1]) :
                entries[1][k].tid = e_response[r].template_id

(***************************************************************************)
(* gallery_delete against a concurrent reload, checked under SpecDelete.   *)
(***************************************************************************)

\* C36: when gallery_delete of an identity has returned, no reload of the
\* node is running or pending and no change message waits, the gallery
\* holds no entry of that identity that existed when the delete began.
C36_DeletedStaysDeleted ==
    (/\ gd.pc = "returned"
     /\ load_pc[1] = "idle"
     /\ load_timers[1] = {}
     /\ nats_inbox[1] = <<>>) =>
        \A k \in 1..Len(entries[1]) :
            entries[1][k].iid = gd.iid => entries[1][k].tid >= gd.since

(***************************************************************************)
(* Persistence of batch-enrolled templates, checked under SpecStreamFair.  *)
(***************************************************************************)

\* The threads of _batch_pool keep running, and the event loop resumes
\* _stream whenever a completed result waits or the loop has ended.  The
\* caller may disconnect at any time, or never.
SpecStreamFair ==
    /\ SpecStream
    /\ WF_vars(BatchSubmit)
    /\ \A i \in Items :
           /\ WF_vars(\E ok \in BOOLEAN : WStart(i, ok))
           /\ WF_vars(WAcquire(i) \/ WAcquireTimeout(i))
           /\ WF_vars(\E tpl \in Templates :
                        \E outcome \in {"ok", "pipeline", "no_template", "raise"} :
                            WAnalyze(i, tpl, outcome))
           /\ WF_vars(WCheckDuplicate(i))
           /\ WF_vars(WEnroll(i))
    /\ WF_vars(\E how \in {"redis", "db", "db_identity", "fail", "pack_raises"} :
                  StreamTake(how))
    /\ WF_vars(StreamFinish)

\* the template ids handed to push_enrollment so far
PushedTids == {rq_pushed[k].tid : k \in 1..Len(rq_pushed)}

\* C37: a template a batch worker has added to the gallery is eventually
\* pushed to the enrollment queue or written to the store.
C37_EnrolledReachesPersistence ==
    \A i \in Items :
        (w_result[i].template_id # None)
            ~> (w_result[i].template_id \in (PushedTids \cup StoredTemplateIds))

(***************************************************************************)
(* The counters of a batch stream, checked under SpecStream.               *)
(***************************************************************************)

\* C38: the three counters of a stream add up to the number of results
\* its loop has consumed, each result having incremented exactly one of
\* them, and in every summary total = enrolled + duplicates + errors.
C38_CountersAddUp ==
    /\ [](enrolled_count + dup_count + error_count = s_taken)
    /\ [][s_taken' = s_taken + 1 =>
            (enrolled_count' - enrolled_count) + (dup_count' - dup_count)
                + (error_count' - error_count) = 1]_vars
    /\ [](\A k \in 1..Len(s_out) :
            s_out[k].event = "done" =>
                s_out[k].total = s_out[k].enrolled + s_out[k].duplicates
                                    + s_out[k].errors)

\* a summary was yielded for a batch with an enrolled item and a duplicate
C38_Witness ==
    /\ s_pc = "done"
    /\ enrolled_count = 1
    /\ dup_count = 1
    /\ s_out[Len(s_out)].event = "done"

(***************************************************************************)
(* The identity a 1:N result names, checked under SpecScan.                *)
(***************************************************************************)

\* the result of the scan is consistent: a match names the identity of an
\* entry of the snapshot that was scored, whose distance is the reported
\* one and is below the threshold; no match names no identity
ResultConsistent ==
    LET res == scan.result IN
        /\ res.is_match =>
              /\ res.matched_identity_id # None
              /\ res.hamming_distance < scan.threshold
              /\ \E k \in 1..Len(scan.snap) :
                    /\ scan.snap[k].iid = res.matched_identity_id
                    /\ ~ScoreRaises(scan.mode, scan.snap[k])
                    /\ Dist(scan.probe, scan.snap[k].tpl) = res.hamming_distance
        /\ ~res.is_match => res.matched_identity_id = None

\* C39: for every threshold of at most 1.0, a 1:N query that returned, in
\* plaintext or HE local mode, returned a consistent result.
C39_MatchNamesScoredEntry ==
    (scan.pc = "done" /\ ~scan.raised /\ scan.threshold <= UnitDistance)
        => ResultConsistent

\* C39 as stated, for every threshold the settings accept: a 1:N query that
\* returned, returned a consistent result.
C39_ForEveryThreshold ==
    (scan.pc = "done" /\ ~scan.raised) => ResultConsistent

\* a plaintext query skipped an entry it could not score and matched
\* another, between the dedup and the match threshold
C39_Witness ==
    /\ scan.pc = "done"
    /\ scan.mode = "off"
    /\ scan.threshold = MatchThreshold
    /\ \E k \in 1..Len(scan.snap) : scan.snap[k].fault = "malformed"
    /\ scan.result.is_match
    /\ scan.result.hamming_distance >= DedupThreshold

====
